---- MODULE Spec2Model ----
(***************************************************************************)
(* Notification delivery pipeline of the Distributed-Notification-System:  *)
(* API gateway admission (idempotency store, notification records, broker  *)
(* publish), the RabbitMQ topology, and the email / push channel consumers *)
(* with their circuit breakers and retry-wrapped senders.                  *)
(***************************************************************************)
EXTENDS Integers, Sequences, FiniteSets, TLC

VARIABLES
    queues,      \* broker: queue name -> sequence of messages (head = next delivery)
    unacked,     \* broker: consumer -> messages delivered on its channel, not yet acked/nacked
    unroutable,  \* broker: messages an exchange dropped because no binding matched
    records,     \* gateway database: request id -> notification record
    breakers,    \* process -> dependency -> CircuitBreaker instance
    now,         \* wall clock (seconds), time.time()
    deliveries,  \* history: request id -> number of times handed to process_message
    reads,       \* history: request id -> x-retry-count values read by failing runs
    run,         \* history: the most recent process_message run
    redis,       \* idempotency store: key -> entry
    calls,       \* gateway workers: worker -> the create_notification call in progress
    published,   \* history: request id -> number of QueueManager.publish calls that succeeded
    inserted,    \* history: request id -> number of notification rows committed
    succeeded,   \* history: request ids for which a call has returned success
    ncalls,      \* history: create_notification / check_and_store calls started
    clients,     \* direct callers of IdempotencyManager.check_and_store
    threads,     \* callers of one CircuitBreaker instance: thread -> its call in progress
    trials,      \* history of that instance: failures in a row, increments performed
    retry,       \* one call of a retry_with_backoff wrapper
    consumers,   \* consumer -> the state of its supervision loop (start_consuming)
    broker,      \* whether RabbitMQ accepts connections, and its outages so far
    endpoint     \* the last request a status endpoint of the gateway has served

vars == <<queues, unacked, unroutable, records, breakers, now, deliveries, reads, run,
          redis, calls, published, inserted, succeeded, ncalls, clients,
          threads, trials, retry, consumers, broker, endpoint>>

pipelineVars == <<queues, unacked, unroutable, records, breakers, deliveries, reads, run>>
gatewayVars == <<redis, calls, published, inserted, succeeded, ncalls>>
unitVars == <<threads, trials, retry>>
edgeVars == <<consumers, broker, endpoint>>

(***************************************************************************)
(* Bounds of the exploration.                                              *)
(***************************************************************************)
MaxDeliveries == 5      \* deliveries of one message that are explored
MaxTicks == 2           \* clock ticks that are explored
TickSeconds == 1800     \* length of one clock tick
MaxCalls == 2           \* calls of create_notification / check_and_store that are explored
MaxBreakerCalls == 7    \* calls through one CircuitBreaker instance that are explored
MaxElapses == 2         \* waits between the calls of a breaker that are explored
MaxRetriesTried == 4    \* largest max_retries a retry_with_backoff wrapper is given
MaxErrors == 2          \* connection losses of one consumer while the broker is up
MaxOutages == 1         \* times the broker goes down
MaxBacklog == 11        \* messages waiting in one channel queue

(***************************************************************************)
(* Program constants.                                                      *)
(***************************************************************************)
consumer_max_retries == 3   \* `if retry_count < 3`
prefetch_count == 10
reconnect_delay == 5
failure_threshold == 5
recovery_timeout == 60
max_retries == 3            \* @retry_with_backoff(max_retries=3, ...)
initial_delay == 1
max_delay == 60
exponential_base == 2
ttl == 3600

ReqIds == {"r1", "r2"}
Consumers == {"email", "push"}
Dependencies == {"get_user", "get_template", "render_template", "send"}
Workers == {"w1", "w2"}      \* gateway processes
Processes == Consumers \cup Workers

Min(a, b) == IF a < b THEN a ELSE b

(***************************************************************************)
(* shared/circuit_breaker.py                                               *)
(***************************************************************************)
NoTime == 0 - 1

CircuitBreaker ==
    [state |-> "closed", failure_count |-> 0, last_failure_time |-> NoTime]

on_success_keeps_count(b) ==
    IF b.state = "half_open" THEN [b EXCEPT !.state = "closed", !.failure_count = 0]
    ELSE b
on_success(b) ==
    IF b.state = "half_open"
    THEN [b EXCEPT !.state = "closed", !.failure_count = 0]
    ELSE IF b.state = "closed" THEN [b EXCEPT !.failure_count = 0] ELSE b

on_failure(b, t) ==
    LET b1 == [b EXCEPT !.failure_count = @ + 1, !.last_failure_time = t]
    IN  IF b1.failure_count >= failure_threshold
        THEN [b1 EXCEPT !.state = "open"]
        ELSE b1

\* call(func) without the OPEN check of lines 34-40: func is always invoked
call_ignores_open(b, t, raises) ==
    IF raises
    THEN [cb |-> on_failure(b, t), invoked |-> TRUE, raised |-> TRUE]
    ELSE [cb |-> on_success(b), invoked |-> TRUE, raised |-> FALSE]

\* call(func): `raises` says whether func, if invoked, raises.
\* Result: the breaker afterwards, whether func was invoked, whether call raised.
call(b, t, raises) ==
    IF b.state = "open" /\ ~(t - b.last_failure_time > recovery_timeout)
    THEN [cb |-> b, invoked |-> FALSE, raised |-> TRUE]
    ELSE LET b1 == IF b.state = "open" THEN [b EXCEPT !.state = "half_open"] ELSE b
         IN  IF raises
             THEN [cb |-> on_failure(b1, t), invoked |-> TRUE, raised |-> TRUE]
             ELSE [cb |-> on_success(b1), invoked |-> TRUE, raised |-> FALSE]

(***************************************************************************)
(* shared/retry.py: the wrapper's loop.  `fails` is the number of leading  *)
(* attempts of the wrapped function that raise (the next one returns).     *)
(* Result: whether the wrapper raised, the attempts made, the sleeps taken.*)
(***************************************************************************)
RECURSIVE retry_loop(_, _, _)
retry_loop(attempt, delay, fails) ==
    IF attempt >= fails
    THEN [raised |-> FALSE, attempts |-> attempt + 1, sleeps |-> <<>>]
    ELSE IF attempt < max_retries
         THEN LET rest == retry_loop(attempt + 1, delay * exponential_base, fails)
              IN  [rest EXCEPT !.sleeps = <<Min(delay, max_delay)>> \o @]
         ELSE [raised |-> TRUE, attempts |-> attempt + 1, sleeps |-> <<>>]

retry_with_backoff(fails) == retry_loop(0, initial_delay, fails)

(***************************************************************************)
(* The RabbitMQ topology the services declare.  A message is its body, its *)
(* headers and its delivery mode; a body is the JSON text, kept as its     *)
(* kind (an object, another JSON value such as an array, or undecodable    *)
(* text) and the request_id it carries.                                    *)
(***************************************************************************)
QueueNames == {"email.queue", "push.queue", "failed.queue"}

\* queue_bind calls: <<exchange, routing key, queue>>
bindings ==
    { <<"notifications.direct", "email", "email.queue">>,
      <<"notifications.direct", "push", "push.queue">> }

Route(exchange, routing_key) ==
    { q \in QueueNames : <<exchange, routing_key, q>> \in bindings }

ConsumerQueue(c) == IF c = "email" THEN "email.queue" ELSE "push.queue"

NoHeaders == [present |-> FALSE, x_retry_count |-> 0]
RetryHeader(n) == [present |-> TRUE, x_retry_count |-> n]

BodyKinds == {"object", "array", "garbage"}
Body(kind, rid) == [kind |-> kind, request_id |-> rid]

\* pika.BasicProperties(delivery_mode=2, ...): no headers
Message(body) == [body |-> body, headers |-> NoHeaders, delivery_mode |-> 2]

\* A context threads the state a handler reads and writes through its statements.
Context(q, u, d, r, b) ==
    [queues |-> q, unacked |-> u, unroutable |-> d, records |-> r, breakers |-> b,
     ops |-> <<>>, props |-> NoHeaders]

Log(ctx, op) == [ctx EXCEPT !.ops = Append(@, op)]

\* channel.basic_publish(exchange, routing_key, body, properties): the exchange copies
\* the message to every queue bound with that key, and drops it when there is none.
basic_publish(ctx, exchange, routing_key, msg) ==
    LET targets == Route(exchange, routing_key)
        logged == Log(ctx, "publish_" \o routing_key)
    IN  IF targets = {}
        THEN [logged EXCEPT !.unroutable = Append(@, msg)]
        ELSE [logged EXCEPT !.queues =
                 [q \in QueueNames |-> IF q \in targets THEN Append(@[q], msg) ELSE @[q]]]

\* ch.basic_ack(delivery_tag): the delivery at the head of the consumer's channel is settled.
basic_ack(ctx, c) ==
    LET logged == Log(ctx, "ack")
    IN  IF ctx.unacked[c] = <<>> THEN logged
        ELSE [logged EXCEPT !.unacked[c] = Tail(@)]

\* ch.basic_nack(delivery_tag, requeue): the broker puts ITS copy of the message back at
\* the head of the queue it came from, or discards it; the frame carries no properties.
basic_nack(ctx, c, requeue) ==
    LET logged == Log(ctx, IF requeue THEN "nack_requeue" ELSE "nack_drop")
    IN  IF ctx.unacked[c] = <<>> THEN logged
        ELSE LET m == Head(ctx.unacked[c])
             IN  IF requeue
                 THEN [logged EXCEPT !.unacked[c] = Tail(@),
                                     !.queues[ConsumerQueue(c)] = <<m>> \o @]
                 ELSE [logged EXCEPT !.unacked[c] = Tail(@)]

(***************************************************************************)
(* Notification records and the internal status endpoint of the gateway.   *)
(***************************************************************************)
NoRecord == [exists |-> FALSE, status |-> "none", error |-> FALSE]
PendingRecord == [exists |-> TRUE, status |-> "pending", error |-> FALSE]

\* POST /internal/notifications/{id}/status
update_notification_status_internal(recs, id, status, has_error, token_ok) ==
    IF ~token_ok THEN recs
    ELSE IF id \notin DOMAIN recs THEN recs
    ELSE IF ~recs[id].exists THEN recs
    ELSE [recs EXCEPT ![id] = [exists |-> TRUE, status |-> status,
                               error |-> IF has_error THEN TRUE ELSE @.error]]

\* update_notification_status without its try/except: an unreachable endpoint raises
update_notification_status_uncaught(ctx, id, status, has_error, reachable) ==
    [ctx |-> [Log(ctx, "report_" \o status) EXCEPT !.records =
                 IF reachable
                 THEN update_notification_status_internal(@, id, status, has_error, TRUE)
                 ELSE @],
     raised |-> ~reachable]

\* HTTPClient.update_notification_status of the consumers: the POST either reaches the
\* gateway or fails; every exception is caught and logged.
update_notification_status(ctx, id, status, has_error, reachable) ==
    [ctx |-> [Log(ctx, "report_" \o status) EXCEPT !.records =
                 IF reachable
                 THEN update_notification_status_internal(@, id, status, has_error, TRUE)
                 ELSE @],
     raised |-> FALSE]

(***************************************************************************)
(* The consumers' collaborators.  Each @circuit_breaker-decorated method   *)
(* of HTTPClient has its own breaker in the consumer's process.            *)
(***************************************************************************)
\* every dependency call of a process made through one and the same breaker
guarded_by_one_breaker(ctx, p, dep, t, raises) ==
    LET r == call(ctx.breakers[p]["send"], t, raises)
        c1 == [ctx EXCEPT !.breakers[p]["send"] = r.cb]
    IN  [ctx |-> IF r.invoked THEN Log(c1, dep) ELSE c1, raised |-> r.raised]

\* A dependency call made through its breaker: `raises` is what the wrapped function does.
guarded(ctx, p, dep, t, raises) ==
    LET r == call(ctx.breakers[p][dep], t, raises)
        c1 == [ctx EXCEPT !.breakers[p][dep] = r.cb]
    IN  [ctx |-> IF r.invoked THEN Log(c1, dep) ELSE c1, raised |-> r.raised]

RECURSIVE LogTimes(_, _, _)
LogTimes(ctx, op, n) == IF n = 0 THEN ctx ELSE LogTimes(Log(ctx, op), op, n - 1)

\* the attempts of one wrapped send, each but the last followed by its time.sleep
RECURSIVE LogAttempts(_, _, _)
LogAttempts(ctx, attempts, sleeps) ==
    IF attempts = 0 THEN ctx
    ELSE LET sent == LogTimes(ctx, "send", 1)
         IN  IF sleeps = <<>> THEN LogAttempts(sent, attempts - 1, sleeps)
             ELSE LogAttempts(Log(sent, "sleep"), attempts - 1, Tail(sleeps))

\* a send whose exception never reaches process_message
deliver_swallows(ctx, p, t, fails) ==
    LET w == retry_with_backoff(fails)
        r == call(ctx.breakers[p]["send"], t, w.raised)
        c1 == [ctx EXCEPT !.breakers[p]["send"] = r.cb]
    IN  [ctx |-> IF r.invoked THEN LogAttempts(c1, w.attempts, w.sleeps) ELSE c1,
         raised |-> FALSE]

RECURSIVE CallEach(_, _, _, _)
\* the breaker called once for each of the attempts, of which the first `fails` raise
CallEach(b, t, attempts, fails) ==
    IF attempts = 0 THEN b
    ELSE CallEach(call(b, t, fails > 0).cb, t, attempts - 1,
                  IF fails > 0 THEN fails - 1 ELSE 0)

\* the breaker inside the retry wrapper: every attempt is a call of the breaker
deliver_breaker_inside(ctx, p, t, fails) ==
    LET w == retry_with_backoff(fails)
        r == call(ctx.breakers[p]["send"], t, w.raised)
        c1 == [ctx EXCEPT !.breakers[p]["send"] =
                  CallEach(ctx.breakers[p]["send"], t, w.attempts, fails)]
    IN  [ctx |-> IF r.invoked THEN LogAttempts(c1, w.attempts, w.sleeps) ELSE c1,
         raised |-> r.raised]

\* self.circuit_breaker.call(send_email / send_push): the sender's send is wrapped by
\* retry_with_backoff, and the breaker sees one call that returns True or raises.
deliver(ctx, p, t, fails) ==
    LET w == retry_with_backoff(fails)
        r == call(ctx.breakers[p]["send"], t, w.raised)
        c1 == [ctx EXCEPT !.breakers[p]["send"] = r.cb]
    IN  [ctx |-> IF r.invoked THEN LogAttempts(c1, w.attempts, w.sleeps) ELSE c1,
         raised |-> r.raised]

\* What the collaborators answer during one run of process_message.
Answers(u, a, e, tp, rd, sf, ok) ==
    [user |-> u,          \* get_user: "raise", "none" (returns None), "data" (the profile)
     address |-> a,       \* the profile has an email / a push_token
     enabled |-> e,       \* email_enabled / push_enabled
     template |-> tp,     \* get_template: "raise", "none", "data"
     render |-> rd,       \* render_template: "raise", "none", "data"
     send_fails |-> sf,   \* leading attempts of the sender's send that raise
     reachable |-> ok]    \* the status endpoint answers

\* Every answer that leads the handler down a different path (the answers of the
\* stages after the first failing one are never asked for).
Inputs ==
    UNION { { Answers("raise", TRUE, TRUE, "data", "data", 0, ok),
              Answers("none", TRUE, TRUE, "data", "data", 0, ok),
              Answers("data", FALSE, TRUE, "data", "data", 0, ok),
              Answers("data", TRUE, FALSE, "data", "data", 0, ok),
              Answers("data", FALSE, FALSE, "data", "data", 0, ok),
              Answers("data", TRUE, TRUE, "raise", "data", 0, ok),
              Answers("data", TRUE, TRUE, "none", "data", 0, ok),
              Answers("data", TRUE, TRUE, "data", "raise", 0, ok),
              Answers("data", TRUE, TRUE, "data", "none", 0, ok) }
            \cup { Answers("data", TRUE, TRUE, "data", "data", sf, ok) :
                     sf \in 0 .. (max_retries + 1) } : ok \in BOOLEAN }

ReportId(m) == IF m.body.kind = "object" THEN m.body.request_id ELSE "unknown"

(***************************************************************************)
(* services/email_service/consumer.py, services/push_service/consumer.py   *)
(***************************************************************************)
\* the retry decision with the nack of the dead-letter branch left out
requeue_or_dead_letter_no_nack(ctx, c, m) ==
    LET retry_count == IF ctx.props.present THEN ctx.props.x_retry_count ELSE 0
    IN  IF retry_count < consumer_max_retries
        THEN basic_nack([ctx EXCEPT !.props = RetryHeader(retry_count + 1)], c, TRUE)
        ELSE basic_publish(ctx, "notifications.direct", "failed", Message(m.body))

\* the retry decision with every failure sent straight to the dead-letter branch
requeue_or_dead_letter_at_once(ctx, c, m) ==
    basic_publish(basic_nack(ctx, c, FALSE),
                  "notifications.direct", "failed", Message(m.body))

\* the retry decision of the except block
requeue_or_dead_letter(ctx, c, m) ==
    LET retry_count == IF ctx.props.present THEN ctx.props.x_retry_count ELSE 0
    IN  IF retry_count < consumer_max_retries
        THEN basic_nack([ctx EXCEPT !.props = RetryHeader(retry_count + 1)], c, TRUE)
        ELSE basic_publish(basic_nack(ctx, c, FALSE),
                           "notifications.direct", "failed", Message(m.body))

\* the except block: a best-effort 'failed' report, then the retry decision
on_processing_error(ctx, c, m, in) ==
    LET reported ==
            IF m.body.kind = "array"
            THEN ctx    \* message.get raises inside the inner try, which swallows it
            ELSE update_notification_status(ctx, ReportId(m), "failed", TRUE,
                                            in.reachable).ctx
    IN  requeue_or_dead_letter(reported, c, m)

\* the tail of the try block with the ack issued before the report as well as after it
on_delivered_acks_twice(ctx, c, m, in) ==
    LET rp == update_notification_status(basic_ack(ctx, c), ReportId(m), "delivered",
                                         FALSE, in.reachable)
    IN  IF rp.raised THEN [ctx |-> rp.ctx, raised |-> TRUE]
        ELSE [ctx |-> basic_ack(rp.ctx, c), raised |-> FALSE]

\* the tail of the try block after a successful send: report 'delivered', ack
on_delivered(ctx, c, m, in) ==
    LET rp == update_notification_status(ctx, ReportId(m), "delivered", FALSE, in.reachable)
    IN  IF rp.raised THEN [ctx |-> rp.ctx, raised |-> TRUE]
        ELSE [ctx |-> basic_ack(rp.ctx, c), raised |-> FALSE]

\* template fetch, render, send with the check of the rendered result left out
render_and_send_unchecked(ctx, c, m, t, in) ==
    LET tp == guarded(ctx, c, "get_template", t, in.template = "raise")
    IN  IF tp.raised \/ in.template = "none" THEN [ctx |-> tp.ctx, raised |-> TRUE]
        ELSE LET rd == guarded(tp.ctx, c, "render_template", t, in.render = "raise")
             IN  IF rd.raised THEN [ctx |-> rd.ctx, raised |-> TRUE]
                 ELSE LET s == deliver(rd.ctx, c, t, in.send_fails)
                      IN  IF s.raised THEN [ctx |-> s.ctx, raised |-> TRUE]
                          ELSE on_delivered(s.ctx, c, m, in)

\* template fetch, render, send: the same statements in both consumers
render_and_send(ctx, c, m, t, in) ==
    LET tp == guarded(ctx, c, "get_template", t, in.template = "raise")
    IN  IF tp.raised \/ in.template = "none" THEN [ctx |-> tp.ctx, raised |-> TRUE]
        ELSE LET rd == guarded(tp.ctx, c, "render_template", t, in.render = "raise")
             IN  IF rd.raised \/ in.render = "none" THEN [ctx |-> rd.ctx, raised |-> TRUE]
                 ELSE LET s == deliver(rd.ctx, c, t, in.send_fails)
                      IN  IF s.raised THEN [ctx |-> s.ctx, raised |-> TRUE]
                          ELSE on_delivered(s.ctx, c, m, in)

\* EmailConsumer.process_message, try block
email_try(ctx, m, t, in) ==
    IF m.body.kind # "object" THEN [ctx |-> ctx, raised |-> TRUE]
    ELSE LET u == guarded(ctx, "email", "get_user", t, in.user = "raise")
         IN  IF u.raised \/ in.user = "none" \/ ~in.address
             THEN [ctx |-> u.ctx, raised |-> TRUE]
             ELSE IF ~in.enabled
                  THEN [ctx |-> basic_ack(u.ctx, "email"), raised |-> FALSE]
                  ELSE render_and_send(u.ctx, "email", m, t, in)

\* PushConsumer.process_message, try block
push_try(ctx, m, t, in) ==
    IF m.body.kind # "object" THEN [ctx |-> ctx, raised |-> TRUE]
    ELSE LET u == guarded(ctx, "push", "get_user", t, in.user = "raise")
         IN  IF u.raised \/ in.user = "none"
             THEN [ctx |-> u.ctx, raised |-> TRUE]
             ELSE IF ~in.enabled
                  THEN [ctx |-> basic_ack(u.ctx, "push"), raised |-> FALSE]
                  ELSE IF ~in.address
                       THEN [ctx |-> u.ctx, raised |-> TRUE]
                       ELSE render_and_send(u.ctx, "push", m, t, in)

\* process_message(ch, method, properties, body) of consumer c
process_message(ctx, c, m, t, in) ==
    LET start == [ctx EXCEPT !.props = m.headers]
        tried == IF c = "email" THEN email_try(start, m, t, in)
                                ELSE push_try(start, m, t, in)
    IN  IF tried.raised THEN on_processing_error(tried.ctx, c, m, in) ELSE tried.ctx

(***************************************************************************)
(* shared/idempotency.py over Redis.  An entry is visible until its expiry *)
(* time; values are JSON texts.                                            *)
(***************************************************************************)
EmptyResult == [empty |-> TRUE, notification_id |-> "", status |-> ""]
Result(rid) == [empty |-> FALSE, notification_id |-> rid, status |-> "pending"]
Results == {EmptyResult} \cup { Result(r) : r \in ReqIds }

json_dumps(result) ==
    IF result.empty THEN "{}"
    ELSE "{\"notification_id\": \"" \o result.notification_id
         \o "\", \"status\": \"" \o result.status \o "\"}"

json_loads(text) == CHOOSE r \in Results : json_dumps(r) = text

generate_key(request_id, service) == "idempotency:" \o service \o ":" \o request_id

Keys == { generate_key(r, "notification") : r \in ReqIds }

NoEntry == [present |-> FALSE, value |-> "", expires |-> 0]

Live(store, key, t) == store[key].present /\ t < store[key].expires

redis_exists(store, key, t) == IF Live(store, key, t) THEN 1 ELSE 0

\* GET: the value, or "" for nil
redis_get(store, key, t) == IF Live(store, key, t) THEN store[key].value ELSE ""

redis_setex(store, key, seconds, value, t) ==
    [store EXCEPT ![key] = [present |-> TRUE, value |-> value, expires |-> t + seconds]]

is_duplicate_never(store, request_id, service, t) == FALSE
is_duplicate(store, request_id, service, t) ==
    redis_exists(store, generate_key(request_id, service), t) > 0

(***************************************************************************)
(* Gateway-side state, at rest.                                            *)
(***************************************************************************)
NoResponse == [success |-> FALSE, data |-> EmptyResult, error |-> "none"]
IdleCall == [pc |-> "idle", request_id |-> "r1", notification_type |-> "email",
             same_user |-> TRUE, after_success |-> FALSE,
             cached |-> "", ops |-> <<>>, response |-> NoResponse]
StoreClients == {"c1", "c2"}
IdleClient == [pc |-> "idle", key |-> generate_key("r1", "notification"),
               result |-> EmptyResult, cached |-> "", seen |-> NoEntry,
               stored_at |-> 0, returned |-> [none |-> TRUE, value |-> EmptyResult]]

GatewayAtRest ==
    /\ redis = [k \in Keys |-> NoEntry]
    /\ calls = [w \in Workers |-> IdleCall]
    /\ published = [r \in ReqIds |-> 0]
    /\ inserted = [r \in ReqIds |-> 0]
    /\ succeeded = {}
    /\ ncalls = 0
    /\ clients = [c \in StoreClients |-> IdleClient]

(***************************************************************************)
(* One CircuitBreaker instance and one retry_with_backoff wrapper, at rest. *)
(***************************************************************************)
Threads == {"t1", "t2"}
IdleThread == [pc |-> "idle", raises |-> FALSE, before |-> CircuitBreaker,
               found |-> "closed", checked_at |-> 0, invoked |-> FALSE, raised |-> FALSE,
               loaded |-> 0, failed_at |-> 0]
IdleRetry == [pc |-> "idle", max_retries |-> max_retries,
              initial_delay |-> initial_delay, max_delay |-> max_delay,
              exponential_base |-> exponential_base, outcomes |-> <<>>,
              attempt |-> 0, delay |-> 0, sleeps |-> <<>>, invocations |-> 0,
              last_exception |-> 0, returned_from |-> 0, raised_exception |-> 0]

UnitsAtRest ==
    /\ threads = [t \in Threads |-> IdleThread]
    /\ trials = [streak |-> 0, counted |-> 0]
    /\ retry = IdleRetry

(***************************************************************************)
(* The consumers' supervision loops, the broker's availability and the     *)
(* gateway's status endpoints, at rest: both consumers are connected and   *)
(* consuming, and no status request has come in from outside.              *)
(***************************************************************************)
Connected == [pc |-> "consuming", delay |-> 0, errors |-> 0]
NoRequest == [path |-> "none", id |-> "r1", status |-> "pending", has_error |-> FALSE,
              authorized |-> FALSE, changed |-> FALSE]

EdgeAtRest ==
    /\ consumers = [c \in Consumers |-> Connected]
    /\ broker = [up |-> TRUE, outages |-> 0]
    /\ endpoint = NoRequest

(***************************************************************************)
(* The delivery pipeline: broker and channel consumers.                    *)
(***************************************************************************)
NoRun == [consumer |-> "none", message |-> Message(Body("object", "r1")),
          answers |-> Answers("data", TRUE, TRUE, "data", "data", 0, TRUE),
          ops |-> <<>>, props |-> NoHeaders, failed |-> FALSE,
          found |-> "closed",        \* state of the consumer's send breaker before the run
          recoverable |-> FALSE]     \* it was OPEN with its recovery timeout over

\* The messages a channel queue can hold: what the gateway publishes (an object body,
\* no headers), and what any other producer may route to the channel: a body that is
\* no JSON object, or a message that already carries an x-retry-count header.
InitialMessages ==
    { [body |-> Body(k, "r1"), headers |-> h, delivery_mode |-> 2] :
        k \in BodyKinds,
        h \in {NoHeaders, RetryHeader(consumer_max_retries - 1),
               RetryHeader(consumer_max_retries)} }

PublishedByGateway(m) == m.body.kind = "object" /\ ~m.headers.present

\* One request has been admitted (its record is pending) and its message waits in the
\* queue of its channel; both consumers are connected with fresh breakers.
Init ==
    /\ \E c \in Consumers, m \in InitialMessages :
          queues = [q \in QueueNames |-> IF q = ConsumerQueue(c) THEN <<m>> ELSE <<>>]
    /\ unacked = [c \in Consumers |-> <<>>]
    /\ unroutable = <<>>
    /\ records = [r \in ReqIds |-> IF r = "r1" THEN PendingRecord ELSE NoRecord]
    /\ breakers = [p \in Processes |-> [d \in Dependencies |-> CircuitBreaker]]
    /\ now = 0
    /\ deliveries = [r \in ReqIds |-> 0]
    /\ reads = [r \in ReqIds |-> <<>>]
    /\ run = NoRun
    /\ EdgeAtRest
    /\ GatewayAtRest
    /\ UnitsAtRest

\* basic.deliver without basic_qos: the broker hands over whatever the queue holds
Deliver_beyond_prefetch(c) ==
    /\ consumers[c].pc = "consuming"
    /\ queues[ConsumerQueue(c)] # <<>>
    /\ unacked' = [unacked EXCEPT ![c] = Append(@, Head(queues[ConsumerQueue(c)]))]
    /\ queues' = [queues EXCEPT ![ConsumerQueue(c)] = Tail(@)]
    /\ UNCHANGED <<unroutable, records, breakers, now, deliveries, reads, run>>
    /\ UNCHANGED <<gatewayVars, clients>>
    /\ UNCHANGED unitVars
    /\ UNCHANGED edgeVars

\* basic.deliver: the broker hands the head of the queue to the consumer, within prefetch
Deliver(c) ==
    /\ consumers[c].pc = "consuming"
    /\ queues[ConsumerQueue(c)] # <<>>
    /\ Len(unacked[c]) < prefetch_count
    /\ unacked' = [unacked EXCEPT ![c] = Append(@, Head(queues[ConsumerQueue(c)]))]
    /\ queues' = [queues EXCEPT ![ConsumerQueue(c)] = Tail(@)]
    /\ UNCHANGED <<unroutable, records, breakers, now, deliveries, reads, run>>
    /\ UNCHANGED <<gatewayVars, clients>>
    /\ UNCHANGED unitVars
    /\ UNCHANGED edgeVars

\* the on_message_callback runs for the oldest delivery of the consumer's channel
ProcessMessage(c) ==
    /\ unacked[c] # <<>>
    /\ LET m == Head(unacked[c])
           rid == m.body.request_id
       IN  /\ deliveries[rid] < MaxDeliveries
           /\ \E in \in Inputs :
                LET before == Context(queues, unacked, unroutable, records, breakers)
                    after == process_message(before, c, m, now, in)
                    failed == \E i \in DOMAIN after.ops :
                                 after.ops[i] \in {"nack_requeue", "nack_drop"}
                IN  /\ queues' = after.queues
                    /\ unacked' = after.unacked
                    /\ unroutable' = after.unroutable
                    /\ records' = after.records
                    /\ breakers' = after.breakers
                    /\ deliveries' = [deliveries EXCEPT ![rid] = @ + 1]
                    /\ reads' = IF failed
                                THEN [reads EXCEPT ![rid] =
                                        Append(@, IF m.headers.present
                                                  THEN m.headers.x_retry_count ELSE 0)]
                                ELSE reads
                    /\ run' = [consumer |-> c, message |-> m, answers |-> in,
                               ops |-> after.ops, props |-> after.props,
                               failed |-> failed,
                               found |-> breakers[c]["send"].state,
                               recoverable |->
                                   /\ breakers[c]["send"].state = "open"
                                   /\ now - breakers[c]["send"].last_failure_time
                                      > recovery_timeout]
    /\ UNCHANGED now
    /\ UNCHANGED <<gatewayVars, clients>>
    /\ UNCHANGED unitVars
    /\ UNCHANGED edgeVars

Tick ==
    /\ now < MaxTicks * TickSeconds
    /\ now' = now + TickSeconds
    /\ UNCHANGED <<pipelineVars, gatewayVars, clients>>
    /\ UNCHANGED unitVars
    /\ UNCHANGED edgeVars

\* The pipeline while one message is delivered and redelivered: a window shorter than
\* any timeout, so the clock stands still.
Next ==
    \/ \E c \in Consumers : Deliver(c)
    \/ \E c \in Consumers : ProcessMessage(c)

Spec == Init /\ [][Next]_vars

(***************************************************************************)
(* Properties of the delivery pipeline.                                    *)
(***************************************************************************)
Count(ops, op) == Cardinality({ i \in DOMAIN ops : ops[i] = op })

Ran == run.consumer # "none"
RunId == run.message.body.request_id
InQueue(q, body) == \E i \in DOMAIN queues[q] : queues[q][i].body = body
Copies(q, body) == Cardinality({ i \in DOMAIN queues[q] : queues[q][i].body = body })
InChannelQueue(body) == InQueue("email.queue", body) \/ InQueue("push.queue", body)

\* The last run got through validation, rendering and the sender: every collaborator
\* answered, every breaker let its call through and the send returned within its retries.
RunDelivered ==
    /\ Ran
    /\ run.message.body.kind = "object"
    /\ run.answers.user = "data" /\ run.answers.address /\ run.answers.enabled
    /\ run.answers.template = "data" /\ run.answers.render = "data"
    /\ run.answers.send_fails <= max_retries
    /\ Count(run.ops, "get_user") = 1
    /\ Count(run.ops, "get_template") = 1
    /\ Count(run.ops, "render_template") = 1
    /\ Count(run.ops, "send") = run.answers.send_fails + 1

\* C1: a message published by the gateway whose processing fails on every delivery is
\* read with x-retry-count 0, 1, 2, 3 on its successive deliveries; the first three
\* failures nack with requeue, the fourth nacks without requeue and publishes the
\* message to the DLQ once, and the message is not back in its channel queue.
C1_RetryCountClimbsToDeadLetter ==
    (Ran /\ PublishedByGateway(run.message)) =>
        /\ Len(reads[RunId]) <= consumer_max_retries + 1
        /\ \A i \in DOMAIN reads[RunId] : reads[RunId][i] = i - 1
        /\ (run.failed /\ Len(reads[RunId]) <= consumer_max_retries) =>
               Count(run.ops, "nack_requeue") = 1
        /\ (run.failed /\ Len(reads[RunId]) = consumer_max_retries + 1) =>
               /\ Count(run.ops, "nack_drop") = 1
               /\ Count(run.ops, "publish_failed") = 1
               /\ ~InChannelQueue(run.message.body)

\* C2: a message whose processing fails on every attempt is handed to process_message
\* at most max_retries + 1 = 4 times (it is not requeued forever).
C2_AtMostFourDeliveries ==
    (Ran /\ PublishedByGateway(run.message)) =>
        deliveries[RunId] <= consumer_max_retries + 1

\* C3: after a run took the retry-exhaustion branch, the message is in failed.queue
\* exactly once, with the body of the original message, and in no channel queue.
C3_ExhaustedMessageInDeadLetterQueue ==
    (Ran /\ Count(run.ops, "nack_drop") > 0) =>
        /\ Copies("failed.queue", run.message.body) = 1
        /\ ~InChannelQueue(run.message.body)

C6_ReportFailureKeepsAck ==
    (RunDelivered /\ ~run.answers.reachable) =>
        /\ run.ops[Len(run.ops)] = "ack"
        /\ Count(run.ops, "ack") = 1
        /\ Count(run.ops, "nack_requeue") = 0
        /\ Count(run.ops, "nack_drop") = 0
        /\ Count(run.ops, "publish_failed") = 0
        /\ ~InChannelQueue(run.message.body)
        /\ ~InQueue("failed.queue", run.message.body)
        /\ unacked[run.consumer] = <<>>

C6_Witness ==
    /\ RunDelivered /\ ~run.answers.reachable
    /\ run.consumer = "email"
    /\ records[RunId].status # "delivered"


(***************************************************************************)
(* API gateway: POST /api/v1/notifications/ (create_notification).  Every   *)
(* worker is a gateway process with its own breakers; the workers share    *)
(* Redis, the database and the broker.  A request without a request_id     *)
(* gets a fresh uuid4 and so never meets an earlier one; the requests here *)
(* carry their request_id.                                                 *)
(***************************************************************************)
error_response(error) == [success |-> FALSE, data |-> EmptyResult, error |-> error]
success_response(data) == [success |-> TRUE, data |-> data, error |-> "none"]

\* a return statement that leaves the response behind and lets the handler run on
Finish_runs_on(request, response) == [request EXCEPT !.pc = "insert", !.response = response]
Finish(request, response) == [request EXCEPT !.pc = "done", !.response = response]
Did(request, op) == [request EXCEPT !.ops = Append(@, op)]

\* `if cached:` on the bytes Redis returned
check_and_store_found_never(cached) == FALSE
check_and_store_found(cached) == cached # ""

\* `if cached:` on the dict check_and_store returned: an empty dict is no result
is_cached_result_never(result) == FALSE
is_cached_result(result) == ~result.empty

\* redis.setex(key, ttl, json.dumps(result, default=str))
check_and_store_set(store, key, result, t) ==
    redis_setex(store, key, ttl, json_dumps(result), t)

CallKey(request) == generate_key(request.request_id, "notification")

\* db.add(db_notification); db.commit(): the primary key refuses a second row
db_commit_no_primary_key(recs, id) ==
    [records |-> [recs EXCEPT ![id] = PendingRecord], raised |-> FALSE]
\* a commit that returns without the row having been written
db_commit_lost(recs, id) == [records |-> recs, raised |-> FALSE]
db_commit(recs, id) ==
    IF recs[id].exists
    THEN [records |-> recs, raised |-> TRUE]
    ELSE [records |-> [recs EXCEPT ![id] = PendingRecord], raised |-> FALSE]

\* QueueManager.publish with every message sent under the routing key "email"
publish_to_email(ctx, routing_key, request_id) ==
    basic_publish(ctx, "notifications.direct", "email",
                  Message(Body("object", request_id)))

\* QueueManager.publish(routing_key, message)
publish(ctx, routing_key, request_id) ==
    basic_publish(ctx, "notifications.direct", routing_key,
                  Message(Body("object", request_id)))

UserAnswers == {"raise", "none", "data"}
TemplateAnswers == {"raise", "none", "data", "other_type"}

InitGateway ==
    /\ queues = [q \in QueueNames |-> <<>>]
    /\ unacked = [c \in Consumers |-> <<>>]
    /\ unroutable = <<>>
    /\ records = [r \in ReqIds |-> NoRecord]
    /\ breakers = [p \in Processes |-> [d \in Dependencies |-> CircuitBreaker]]
    /\ now = 0
    /\ deliveries = [r \in ReqIds |-> 0]
    /\ reads = [r \in ReqIds |-> <<>>]
    /\ run = NoRun
    /\ EdgeAtRest
    /\ GatewayAtRest
    /\ UnitsAtRest

\* lines 86-96: the request arrives; the body's user must be the authenticated one
Admit(w) ==
    /\ calls[w].pc = "idle"
    /\ ncalls < MaxCalls
    /\ \E rid \in ReqIds, type \in Consumers, same \in BOOLEAN :
          LET c == [IdleCall EXCEPT !.request_id = rid, !.notification_type = type,
                                    !.same_user = same,
                                    !.after_success = rid \in succeeded]
          IN  calls' = [calls EXCEPT ![w] =
                          IF same THEN [c EXCEPT !.pc = "is_duplicate"]
                          ELSE Finish(c, error_response("Unauthorized"))]
    /\ ncalls' = ncalls + 1
    /\ UNCHANGED <<pipelineVars, now, redis, published, inserted, succeeded, clients>>
    /\ UNCHANGED unitVars
    /\ UNCHANGED edgeVars

\* line 99: idempotency_manager.is_duplicate(request_id, "notification")
IsDuplicate(w) ==
    /\ calls[w].pc = "is_duplicate"
    /\ \E up \in BOOLEAN :
          LET c == Did(calls[w], "exists")
          IN  calls' = [calls EXCEPT ![w] =
                 IF ~up THEN Finish(c, error_response("redis"))
                 ELSE IF is_duplicate(redis, c.request_id, "notification", now)
                      THEN [c EXCEPT !.pc = "cached_get"]
                      ELSE [c EXCEPT !.pc = "validate"]]
    /\ UNCHANGED <<pipelineVars, now, redis, published, inserted, succeeded, ncalls,
                   clients>>
    /\ UNCHANGED unitVars
    /\ UNCHANGED edgeVars

\* lines 100-105: check_and_store(request_id, "notification", {}) up to its GET
CachedGet(w) ==
    /\ calls[w].pc = "cached_get"
    /\ \E up \in BOOLEAN :
          LET c == Did(calls[w], "get")
              cached == redis_get(redis, CallKey(c), now)
              got == [c EXCEPT !.cached = cached]
          IN  calls' = [calls EXCEPT ![w] =
                 IF ~up THEN Finish(c, error_response("redis"))
                 ELSE IF check_and_store_found(cached)
                      THEN IF is_cached_result(json_loads(cached))
                           THEN Finish(got, success_response(Result(c.request_id)))
                           ELSE [got EXCEPT !.pc = "validate"]
                      ELSE [got EXCEPT !.pc = "cached_set"]]
    /\ UNCHANGED <<pipelineVars, now, redis, published, inserted, succeeded, ncalls,
                   clients>>
    /\ UNCHANGED unitVars
    /\ UNCHANGED edgeVars

\* the SETEX of that check_and_store: the entry was gone at its GET
CachedSet(w) ==
    /\ calls[w].pc = "cached_set"
    /\ \E up \in BOOLEAN :
          LET c == Did(calls[w], "setex")
          IN  /\ calls' = [calls EXCEPT ![w] =
                    IF ~up THEN Finish(c, error_response("redis"))
                    ELSE [c EXCEPT !.pc = "validate"]]
              /\ redis' = IF up
                          THEN check_and_store_set(redis, CallKey(c), EmptyResult, now)
                          ELSE redis
    /\ UNCHANGED <<pipelineVars, now, published, inserted, succeeded, ncalls, clients>>
    /\ UNCHANGED unitVars
    /\ UNCHANGED edgeVars

\* lines 108-128: the user and the template are fetched through the worker's breakers
Validate(w) ==
    /\ calls[w].pc = "validate"
    /\ \E user \in UserAnswers, template \in TemplateAnswers :
          LET c == calls[w]
              c0 == Context(queues, unacked, unroutable, records, breakers)
              u == guarded(c0, w, "get_user", now, user = "raise")
              t == guarded(u.ctx, w, "get_template", now, template = "raise")
              asked == IF u.raised \/ user = "none" THEN u.ctx ELSE t.ctx
              c1 == [c EXCEPT !.ops = @ \o asked.ops]
          IN  /\ breakers' = asked.breakers
              /\ calls' = [calls EXCEPT ![w] =
                    IF u.raised THEN Finish(c1, error_response("get_user"))
                    ELSE IF user = "none" THEN Finish(c1, error_response("User not found"))
                    ELSE IF t.raised THEN Finish(c1, error_response("get_template"))
                    ELSE IF template = "none"
                         THEN Finish(c1, error_response("Template not found"))
                    ELSE IF template = "other_type"
                         THEN Finish(c1, error_response("Template type mismatch"))
                    ELSE [c1 EXCEPT !.pc = "insert"]]
    /\ UNCHANGED <<queues, unacked, unroutable, records, deliveries, reads, run, now,
                   redis, published, inserted, succeeded, ncalls, clients>>
    /\ UNCHANGED unitVars
    /\ UNCHANGED edgeVars

\* the insert with its IntegrityError swallowed: the call goes on to publish
CreateRecord_goes_on(w) ==
    /\ calls[w].pc = "insert"
    /\ LET c == Did(calls[w], "insert")
           r == db_commit(records, c.request_id)
       IN  /\ records' = r.records
           /\ inserted' = IF r.raised THEN inserted
                          ELSE [inserted EXCEPT ![c.request_id] = @ + 1]
           /\ calls' = [calls EXCEPT ![w] = [c EXCEPT !.pc = "publish"]]
    /\ UNCHANGED <<queues, unacked, unroutable, breakers, deliveries, reads, run, now,
                   redis, published, succeeded, ncalls, clients>>
    /\ UNCHANGED unitVars
    /\ UNCHANGED edgeVars

\* lines 131-143: the notification row is committed
CreateRecord(w) ==
    /\ calls[w].pc = "insert"
    /\ LET c == Did(calls[w], "insert")
           r == db_commit(records, c.request_id)
       IN  /\ records' = r.records
           /\ inserted' = IF r.raised THEN inserted
                          ELSE [inserted EXCEPT ![c.request_id] = @ + 1]
           /\ calls' = [calls EXCEPT ![w] =
                 IF r.raised THEN Finish(c, error_response("IntegrityError"))
                 ELSE [c EXCEPT !.pc = "publish"]]
    /\ UNCHANGED <<queues, unacked, unroutable, breakers, deliveries, reads, run, now,
                   redis, published, succeeded, ncalls, clients>>
    /\ UNCHANGED unitVars
    /\ UNCHANGED edgeVars

\* lines 146-156: queue_manager.publish(routing_key, message)
Publish(w) ==
    /\ calls[w].pc = "publish"
    /\ \E up \in BOOLEAN :
          LET c == Did(calls[w], "publish")
              c0 == Context(queues, unacked, unroutable, records, breakers)
              sent == publish(c0, c.notification_type, c.request_id)
          IN  /\ queues' = IF up THEN sent.queues ELSE queues
              /\ unroutable' = IF up THEN sent.unroutable ELSE unroutable
              /\ published' = IF up THEN [published EXCEPT ![c.request_id] = @ + 1]
                              ELSE published
              /\ calls' = [calls EXCEPT ![w] =
                    IF up THEN [c EXCEPT !.pc = "store_get"]
                    ELSE Finish(c, error_response("publish"))]
    /\ UNCHANGED <<unacked, records, breakers, deliveries, reads, run, now,
                   redis, inserted, succeeded, ncalls, clients>>
    /\ UNCHANGED unitVars
    /\ UNCHANGED edgeVars

\* lines 159-160: check_and_store(request_id, "notification", result) up to its GET;
\* what it returns is not looked at
StoreGet(w) ==
    /\ calls[w].pc = "store_get"
    /\ \E up \in BOOLEAN :
          LET c == Did(calls[w], "get")
              cached == redis_get(redis, CallKey(c), now)
          IN  calls' = [calls EXCEPT ![w] =
                 IF ~up THEN Finish(c, error_response("redis"))
                 ELSE IF check_and_store_found(cached)
                      THEN Finish(c, success_response(Result(c.request_id)))
                      ELSE [c EXCEPT !.pc = "store_set"]]
    /\ UNCHANGED <<pipelineVars, now, redis, published, inserted, succeeded, ncalls,
                   clients>>
    /\ UNCHANGED unitVars
    /\ UNCHANGED edgeVars

\* the SETEX of that check_and_store, then lines 162-166
StoreSet(w) ==
    /\ calls[w].pc = "store_set"
    /\ \E up \in BOOLEAN :
          LET c == Did(calls[w], "setex")
          IN  /\ calls' = [calls EXCEPT ![w] =
                    IF up THEN Finish(c, success_response(Result(c.request_id)))
                    ELSE Finish(c, error_response("redis"))]
              /\ redis' = IF up
                          THEN check_and_store_set(redis, CallKey(c),
                                                   Result(c.request_id), now)
                          ELSE redis
    /\ UNCHANGED <<pipelineVars, now, published, inserted, succeeded, ncalls, clients>>
    /\ UNCHANGED unitVars
    /\ UNCHANGED edgeVars

\* the response reaches the caller
Return(w) ==
    /\ calls[w].pc = "done"
    /\ succeeded' = IF calls[w].response.success
                    THEN succeeded \cup {calls[w].request_id} ELSE succeeded
    /\ calls' = [calls EXCEPT ![w] = IdleCall]
    /\ UNCHANGED <<pipelineVars, now, redis, published, inserted, ncalls, clients>>
    /\ UNCHANGED unitVars
    /\ UNCHANGED edgeVars

NextGateway ==
    \/ \E w \in Workers : Admit(w)
    \/ \E w \in Workers : IsDuplicate(w)
    \/ \E w \in Workers : CachedGet(w)
    \/ \E w \in Workers : CachedSet(w)
    \/ \E w \in Workers : Validate(w)
    \/ \E w \in Workers : CreateRecord(w)
    \/ \E w \in Workers : Publish(w)
    \/ \E w \in Workers : StoreGet(w)
    \/ \E w \in Workers : StoreSet(w)
    \/ \E w \in Workers : Return(w)
    \/ Tick

SpecGateway == InitGateway /\ [][NextGateway]_vars

(***************************************************************************)
(* IdempotencyManager.check_and_store called directly, one call after the  *)
(* other, by one client.                                                   *)
(***************************************************************************)
None == [none |-> TRUE, value |-> EmptyResult]
Some(result) == [none |-> FALSE, value |-> result]

StoreCall(c) ==
    /\ clients[c].pc = "idle"
    /\ ncalls < MaxCalls
    /\ \E key \in Keys, result \in Results :
          clients' = [clients EXCEPT ![c] =
                        [IdleClient EXCEPT !.pc = "get", !.key = key, !.result = result]]
    /\ ncalls' = ncalls + 1
    /\ UNCHANGED <<pipelineVars, now, redis, calls, published, inserted, succeeded>>
    /\ UNCHANGED unitVars
    /\ UNCHANGED edgeVars

\* lines 33-39: cached = redis.get(key); if cached: return json.loads(cached)
StoreClientGet(c) ==
    /\ clients[c].pc = "get"
    /\ LET cl == clients[c]
           cached == redis_get(redis, cl.key, now)
           seen == [cl EXCEPT !.cached = cached,
                              !.seen = IF Live(redis, cl.key, now) THEN redis[cl.key]
                                       ELSE NoEntry]
       IN  clients' = [clients EXCEPT ![c] =
              IF check_and_store_found(cached)
              THEN [seen EXCEPT !.pc = "returned", !.returned = Some(json_loads(cached))]
              ELSE [seen EXCEPT !.pc = "setex"]]
    /\ UNCHANGED <<pipelineVars, now, redis, calls, published, inserted, succeeded,
                   ncalls>>
    /\ UNCHANGED unitVars
    /\ UNCHANGED edgeVars

\* lines 42-44: redis.setex(key, ttl, json.dumps(result)); return None
StoreClientSet(c) ==
    /\ clients[c].pc = "setex"
    /\ redis' = check_and_store_set(redis, clients[c].key, clients[c].result, now)
    /\ clients' = [clients EXCEPT ![c] =
                     [@ EXCEPT !.pc = "returned", !.stored_at = now, !.returned = None]]
    /\ UNCHANGED <<pipelineVars, now, calls, published, inserted, succeeded, ncalls>>
    /\ UNCHANGED unitVars
    /\ UNCHANGED edgeVars

StoreReturn(c) ==
    /\ clients[c].pc = "returned"
    /\ clients' = [clients EXCEPT ![c] = IdleClient]
    /\ UNCHANGED <<pipelineVars, now, redis, calls, published, inserted, succeeded,
                   ncalls>>
    /\ UNCHANGED unitVars
    /\ UNCHANGED edgeVars

NextStore ==
    \/ StoreCall("c1")
    \/ StoreClientGet("c1")
    \/ StoreClientSet("c1")
    \/ StoreReturn("c1")
    \/ Tick

SpecStore == InitGateway /\ [][NextStore]_vars


(***************************************************************************)
(* Properties of admission and of the idempotency store.                   *)
(***************************************************************************)
Done(w) == calls[w].pc = "done"

\* the entry of the request is visible and holds the result of its admission
EntryHolds(rid) ==
    /\ Live(redis, generate_key(rid, "notification"), now)
    /\ redis[generate_key(rid, "notification")].value = json_dumps(Result(rid))

\* a call by the same user that began after a call with its request_id had returned
\* success
SecondCall(w) == Done(w) /\ calls[w].after_success /\ calls[w].same_user

FoundCached(w) ==
    /\ calls[w].cached # ""
    /\ ~json_loads(calls[w].cached).empty

\* C8: a create_notification call that finds a cached idempotency result returns that
\* result at once, having done nothing but the two reads of the store: no get_user or
\* get_template call, no record insert, no publish, no write of the entry.
C8_CachedResultReturnedUntouched ==
    \A w \in Workers :
        FoundCached(w)
        => /\ Done(w)
           /\ calls[w].response = success_response(json_loads(calls[w].cached))
           /\ calls[w].ops = <<"exists", "get">>

C8_Witness ==
    \E w \in Workers :
        /\ FoundCached(w)
        /\ Done(w)
        /\ calls[w].response.success
        /\ inserted[calls[w].request_id] = 1
        /\ published[calls[w].request_id] = 1

\* C9: however two concurrent create_notification calls with one request_id interleave,
\* at most one message for it is published and at most one notification record is
\* created.
C9_AtMostOnePublishAndRecord ==
    \A r \in ReqIds :
        /\ published[r] <= 1
        /\ inserted[r] <= 1
        /\ Copies("email.queue", Body("object", r))
             + Copies("push.queue", Body("object", r)) <= 1

\* both workers passed the duplicate check with the same request_id and reached the
\* insert; one of them published
C9_Witness ==
    /\ Done("w1") /\ Done("w2")
    /\ calls["w1"].request_id = calls["w2"].request_id
    /\ ~calls["w1"].after_success /\ ~calls["w2"].after_success
    /\ Count(calls["w1"].ops, "insert") = 1
    /\ Count(calls["w2"].ops, "insert") = 1
    /\ published[calls["w1"].request_id] = 1

\* C10: when check_and_store returns, then if an entry was there at its read, it has
\* returned the stored result and the entry, value and expiry, is as it was; otherwise
\* it has returned none and the entry now holds the given result and expires ttl
\* seconds after it was written.  So a stored result is never replaced before it expires.
C10_CheckAndStore ==
    \A c \in StoreClients :
        clients[c].pc = "returned"
        => IF clients[c].seen.present
           THEN /\ clients[c].returned = Some(json_loads(clients[c].seen.value))
                /\ redis[clients[c].key] = clients[c].seen
           ELSE /\ clients[c].returned = None
                /\ redis[clients[c].key] =
                      [present |-> TRUE, value |-> json_dumps(clients[c].result),
                       expires |-> clients[c].stored_at + ttl]

\* a later call with another result is handed the first one
C10_Witness ==
    \E c \in StoreClients :
        /\ clients[c].pc = "returned"
        /\ clients[c].seen.present
        /\ clients[c].returned # Some(clients[c].result)
        /\ clients[c].returned = Some(json_loads(redis[clients[c].key].value))


(***************************************************************************)
(* IdempotencyManager.check_and_store called by two clients at once, in a  *)
(* window shorter than the TTL: the clock stands still.                    *)
(***************************************************************************)
NextStoreConcurrent ==
    \/ \E c \in StoreClients : StoreCall(c)
    \/ \E c \in StoreClients : StoreClientGet(c)
    \/ \E c \in StoreClients : StoreClientSet(c)
    \/ \E c \in StoreClients : StoreReturn(c)

SpecStoreConcurrent == InitGateway /\ [][NextStoreConcurrent]_vars

\* both calls are back, on the same key
BothReturned(c, d) ==
    /\ c # d
    /\ clients[c].pc = "returned" /\ clients[d].pc = "returned"
    /\ clients[c].key = clients[d].key

\* C11: of two concurrent check_and_store calls on a key that had no entry, exactly one
\* returns none, its result is the one stored, and the other returns that stored result;
\* both never return none.
C11_CheckAndCreateAtomic ==
    \A c, d \in StoreClients :
        BothReturned(c, d) /\ clients[c].returned = None
        => /\ clients[d].returned = Some(clients[c].result)
           /\ redis[clients[c].key].value = json_dumps(clients[c].result)

\* both calls read before either wrote, and both returned none
C11_Witness ==
    \E c, d \in StoreClients :
        /\ BothReturned(c, d)
        /\ clients[c].returned = None /\ clients[d].returned = None
        /\ clients[c].result # clients[d].result
        /\ redis[clients[c].key].value = json_dumps(clients[d].result)


(***************************************************************************)
(* One CircuitBreaker instance (the email consumer's breaker around the    *)
(* sender) called statement by statement.  Between two statements of a     *)
(* call time may pass and, with more than one thread, another call may run.*)
(***************************************************************************)
breaker == breakers["email"]["send"]

SetBreaker(b) == [breakers EXCEPT !["email"]["send"] = b]

\* line 35: time.time() - self.last_failure_time > self.recovery_timeout
timeout_elapsed_at_timeout(b, t) == t - b.last_failure_time >= recovery_timeout
timeout_elapsed(b, t) == t - b.last_failure_time > recovery_timeout

\* lines 58-62 once self.failure_count has been read: the sum is stored, the time is
\* taken, the threshold is tested
on_failure_store_keeps_time(b, loaded, t) ==
    LET b1 == [b EXCEPT !.failure_count = loaded + 1]
    IN  IF b1.failure_count >= failure_threshold THEN [b1 EXCEPT !.state = "open"]
        ELSE b1
\* the threshold tested with > : the breaker opens one failure late
on_failure_store_opens_late(b, loaded, t) ==
    LET b1 == [b EXCEPT !.failure_count = loaded + 1, !.last_failure_time = t]
    IN  IF b1.failure_count > failure_threshold THEN [b1 EXCEPT !.state = "open"]
        ELSE b1
on_failure_store(b, loaded, t) ==
    LET b1 == [b EXCEPT !.failure_count = loaded + 1, !.last_failure_time = t]
    IN  IF b1.failure_count >= failure_threshold THEN [b1 EXCEPT !.state = "open"]
        ELSE b1

ElapseSteps == {recovery_timeout, recovery_timeout + 1}

\* breaker.call(func) is entered; whether func will raise is the environment's choice
BeginCall(t) ==
    /\ threads[t].pc = "idle"
    /\ ncalls < MaxBreakerCalls
    /\ \E raises \in BOOLEAN :
          threads' = [threads EXCEPT ![t] =
                        [IdleThread EXCEPT !.pc = "check", !.raises = raises,
                                           !.before = breaker]]
    /\ ncalls' = ncalls + 1
    /\ UNCHANGED <<pipelineVars, now, redis, calls, published, inserted, succeeded,
                   clients, trials, retry>>
    /\ UNCHANGED edgeVars

\* lines 34-39
CheckState(t) ==
    /\ threads[t].pc = "check"
    /\ LET th == [threads[t] EXCEPT !.checked_at = now, !.found = breaker.state]
       IN  IF breaker.state = "open"
           THEN IF timeout_elapsed(breaker, now)
                THEN /\ breakers' = SetBreaker([breaker EXCEPT !.state = "half_open"])
                     /\ threads' = [threads EXCEPT ![t] = [th EXCEPT !.pc = "invoke"]]
                ELSE /\ breakers' = breakers
                     /\ threads' = [threads EXCEPT ![t] =
                                      [th EXCEPT !.pc = "done", !.raised = TRUE]]
           ELSE /\ breakers' = breakers
                /\ threads' = [threads EXCEPT ![t] = [th EXCEPT !.pc = "invoke"]]
    /\ UNCHANGED <<queues, unacked, unroutable, records, deliveries, reads, run, now,
                   gatewayVars, clients, trials, retry>>
    /\ UNCHANGED edgeVars

\* line 42: result = func(*args, **kwargs)
Invoke(t) ==
    /\ threads[t].pc = "invoke"
    /\ threads' = [threads EXCEPT ![t] =
                     [@ EXCEPT !.invoked = TRUE,
                               !.pc = IF threads[t].raises THEN "on_failure"
                                      ELSE "on_success"]]
    /\ UNCHANGED <<pipelineVars, now, gatewayVars, clients, trials, retry>>
    /\ UNCHANGED edgeVars

\* lines 43-44 and 49-55
OnSuccess(t) ==
    /\ threads[t].pc = "on_success"
    /\ breakers' = SetBreaker(on_success(breaker))
    /\ trials' = IF breaker.state \in {"half_open", "closed"}
                 THEN [trials EXCEPT !.counted = 0] ELSE trials
    /\ threads' = [threads EXCEPT ![t] = [@ EXCEPT !.pc = "done"]]
    /\ UNCHANGED <<queues, unacked, unroutable, records, deliveries, reads, run, now,
                   gatewayVars, clients, retry>>
    /\ UNCHANGED edgeVars

\* line 58, first half: self.failure_count is read
OnFailureLoad(t) ==
    /\ threads[t].pc = "on_failure"
    /\ threads' = [threads EXCEPT ![t] =
                     [@ EXCEPT !.pc = "store", !.loaded = breaker.failure_count]]
    /\ UNCHANGED <<pipelineVars, now, gatewayVars, clients, trials, retry>>
    /\ UNCHANGED edgeVars

\* line 58, second half, to line 62, then line 47
OnFailureStore(t) ==
    /\ threads[t].pc = "store"
    /\ breakers' = SetBreaker(on_failure_store(breaker, threads[t].loaded, now))
    /\ trials' = [trials EXCEPT !.counted = @ + 1]
    /\ threads' = [threads EXCEPT ![t] =
                     [@ EXCEPT !.pc = "done", !.raised = TRUE, !.failed_at = now]]
    /\ UNCHANGED <<queues, unacked, unroutable, records, deliveries, reads, run, now,
                   gatewayVars, clients, retry>>
    /\ UNCHANGED edgeVars

\* the call is over: its result or its exception reaches the caller
EndCall(t) ==
    /\ threads[t].pc = "done"
    /\ trials' = [trials EXCEPT !.streak =
                     IF ~threads[t].invoked THEN @
                     ELSE IF threads[t].raised THEN @ + 1 ELSE 0]
    /\ threads' = [threads EXCEPT ![t] = IdleThread]
    /\ UNCHANGED <<pipelineVars, now, gatewayVars, clients, retry>>
    /\ UNCHANGED edgeVars

\* time passes: just the recovery timeout, or a second more
Elapse ==
    /\ \E d \in ElapseSteps :
          /\ now + d <= MaxElapses * (recovery_timeout + 1)
          /\ now' = now + d
    /\ UNCHANGED <<pipelineVars, gatewayVars, clients, unitVars>>
    /\ UNCHANGED edgeVars

InitBreaker == InitGateway

\* one caller: every call ends before the next begins
NextBreaker ==
    \/ BeginCall("t1")
    \/ CheckState("t1")
    \/ Invoke("t1")
    \/ OnSuccess("t1")
    \/ OnFailureLoad("t1")
    \/ OnFailureStore("t1")
    \/ EndCall("t1")
    \/ Elapse

SpecBreaker == InitBreaker /\ [][NextBreaker]_vars


(***************************************************************************)
(* Properties of the circuit breaker, one caller.                          *)
(***************************************************************************)
Ended(t) == threads[t].pc = "done"

\* the call found the breaker OPEN and the recovery timeout had, or had not, elapsed
\* when it looked
FoundOpen(t) == Ended(t) /\ threads[t].before.state = "open"
FoundClosed(t) == Ended(t) /\ threads[t].before.state = "closed"

\* C12: a call that found the breaker CLOSED leaves it OPEN only if it failed and was
\* the failure_threshold-th failure in a row; if it succeeded the counter is 0 and the
\* breaker stays CLOSED; a failure short of the threshold leaves it CLOSED, and the
\* failure_threshold-th failure in a row opens it.
C12_OpensAtThresholdInARow ==
    \A t \in Threads :
        FoundClosed(t)
        => /\ trials.streak < failure_threshold
           /\ breaker.state = "open"
              <=> (threads[t].raised /\ trials.streak + 1 = failure_threshold)
           /\ breaker.state # "open" => breaker.state = "closed"
           /\ ~threads[t].raised => breaker.failure_count = 0

\* the fifth failure in a row has opened the breaker
C12_Witness ==
    \E t \in Threads :
        /\ FoundClosed(t)
        /\ threads[t].raised
        /\ trials.streak = 4
        /\ breaker.state = "open"

\* C13: a call that finds the breaker OPEN before the recovery timeout has elapsed
\* raises, does not invoke the operation, and leaves state, failure counter and
\* last_failure_time as they were.
C13_OpenFailsFast ==
    \A t \in Threads :
        /\ FoundOpen(t)
        /\ threads[t].checked_at - threads[t].before.last_failure_time
              <= recovery_timeout
        => /\ threads[t].raised
           /\ ~threads[t].invoked
           /\ breaker = threads[t].before

\* a call exactly recovery_timeout seconds after the last failure is refused
C13_Witness ==
    \E t \in Threads :
        /\ FoundOpen(t)
        /\ threads[t].checked_at - threads[t].before.last_failure_time = recovery_timeout
        /\ threads[t].raised
        /\ ~threads[t].invoked

\* the call has passed the check of lines 34-39 and has not yet settled the breaker
OnTrial(t) == threads[t].pc \in {"invoke", "on_success", "on_failure", "store"}

\* C14: a call that finds the breaker OPEN after more than recovery_timeout since
\* last_failure_time makes it HALF_OPEN and invokes the operation; a success leaves the
\* breaker CLOSED with counter 0, a failure leaves it OPEN with last_failure_time the
\* time of that failure.
C14_TrialAfterTimeout ==
    \A t \in Threads :
        /\ OnTrial(t) /\ threads[t].before.state = "open" => breaker.state = "half_open"
        /\ /\ FoundOpen(t)
           /\ threads[t].checked_at - threads[t].before.last_failure_time
                 > recovery_timeout
           => /\ threads[t].invoked
              /\ ~threads[t].raised
                 => breaker.state = "closed" /\ breaker.failure_count = 0
              /\ threads[t].raised
                 => /\ breaker.state = "open"
                    /\ breaker.last_failure_time = threads[t].failed_at

\* a failed trial has reopened the breaker
C14_Witness ==
    \E t \in Threads :
        /\ FoundOpen(t)
        /\ threads[t].invoked /\ threads[t].raised
        /\ breaker.state = "open"
        /\ breaker.last_failure_time = threads[t].failed_at
        /\ threads[t].failed_at > threads[t].before.last_failure_time

\* C16: when a call takes the breaker from CLOSED to OPEN, the failure counter is 0
\* afterwards and last_failure_time is the time of the failure.
C16_CounterResetOnOpen ==
    \A t \in Threads :
        FoundClosed(t) /\ breaker.state = "open"
        => /\ breaker.failure_count = 0
           /\ breaker.last_failure_time = threads[t].failed_at

\* the breaker has just opened and its counter stands at the threshold
C16_Witness ==
    \E t \in Threads :
        /\ FoundClosed(t)
        /\ breaker.state = "open"
        /\ breaker.failure_count = failure_threshold
        /\ breaker.last_failure_time = threads[t].failed_at


(***************************************************************************)
(* The same instance called by two threads at once.                        *)
(***************************************************************************)
NextBreakerConcurrent ==
    \/ \E t \in Threads : BeginCall(t)
    \/ \E t \in Threads : CheckState(t)
    \/ \E t \in Threads : Invoke(t)
    \/ \E t \in Threads : OnSuccess(t)
    \/ \E t \in Threads : OnFailureLoad(t)
    \/ \E t \in Threads : OnFailureStore(t)
    \/ \E t \in Threads : EndCall(t)
    \/ Elapse

\* What failure_threshold earlier calls, made one after the other at time 0, can leave
\* behind: all succeeded, the last four failed, or all five failed.
EarlierCalls ==
    { [state |-> "closed", failure_count |-> 0, last_failure_time |-> NoTime],
      [state |-> "closed", failure_count |-> failure_threshold - 1,
       last_failure_time |-> 0],
      [state |-> "open", failure_count |-> failure_threshold, last_failure_time |-> 0] }

InitBreakerConcurrent ==
    /\ queues = [q \in QueueNames |-> <<>>]
    /\ unacked = [c \in Consumers |-> <<>>]
    /\ unroutable = <<>>
    /\ records = [r \in ReqIds |-> NoRecord]
    /\ \E b \in EarlierCalls :
          /\ breakers = [p \in Processes |-> [d \in Dependencies |->
                           IF p = "email" /\ d = "send" THEN b ELSE CircuitBreaker]]
          /\ trials = [streak |-> b.failure_count, counted |-> b.failure_count]
    /\ now = 0
    /\ deliveries = [r \in ReqIds |-> 0]
    /\ reads = [r \in ReqIds |-> <<>>]
    /\ run = NoRun
    /\ EdgeAtRest
    /\ redis = [k \in Keys |-> NoEntry]
    /\ calls = [w \in Workers |-> IdleCall]
    /\ published = [r \in ReqIds |-> 0]
    /\ inserted = [r \in ReqIds |-> 0]
    /\ succeeded = {}
    /\ ncalls = failure_threshold
    /\ clients = [c \in StoreClients |-> IdleClient]
    /\ threads = [t \in Threads |-> IdleThread]
    /\ retry = IdleRetry

SpecBreakerConcurrent == InitBreakerConcurrent /\ [][NextBreakerConcurrent]_vars

\* calls let through at line 34 because the breaker was OPEN past its timeout or
\* HALF_OPEN, whose operation has been entered and whose outcome is not yet recorded
TrialCalls ==
    { t \in Threads : /\ threads[t].found \in {"open", "half_open"}
                      /\ threads[t].pc \in {"on_success", "on_failure", "store"} }

\* C15: with several callers on one instance no failure increment is lost (the counter
\* equals the increments performed since it was last reset), and while the breaker is
\* HALF_OPEN at most one trial call is in the wrapped operation.
C15_AtomicUpdates ==
    /\ breaker.failure_count = trials.counted
    /\ breaker.state = "half_open" => Cardinality(TrialCalls) <= 1

\* two trial calls have entered the operation while the breaker is HALF_OPEN
C15_Witness ==
    /\ breaker.state = "half_open"
    /\ Cardinality(TrialCalls) = 2

\* two failures were recorded and the counter shows one
C15_LostIncrement ==
    /\ trials.counted = 2
    /\ breaker.failure_count = 1
    /\ \A t \in Threads : threads[t].pc = "done" /\ threads[t].raised


(***************************************************************************)
(* shared/retry.py: one call of a retry_with_backoff(max_retries,          *)
(* initial_delay, max_delay, exponential_base) wrapper, statement by       *)
(* statement.  Whether an attempt raises is the wrapped function's affair; *)
(* an exception is known by the number of the attempt that raised it.      *)
(***************************************************************************)
NoException == 0 - 1

RetryParams ==
    [max_retries : 0 .. MaxRetriesTried,
     initial_delay : {initial_delay, 2},
     max_delay : {3, max_delay},
     exponential_base : {exponential_base, 3}]

\* lines 32-33
wrapper(p) ==
    [IdleRetry EXCEPT !.pc = "attempt", !.max_retries = p.max_retries,
                      !.initial_delay = p.initial_delay, !.max_delay = p.max_delay,
                      !.exponential_base = p.exponential_base,
                      !.delay = p.initial_delay, !.last_exception = NoException,
                      !.returned_from = NoException,
                      !.raised_exception = NoException]

\* line 40: if attempt < max_retries
retries_left_one_more(r) == r.attempt <= r.max_retries
retries_left(r) == r.attempt < r.max_retries

\* line 45: time.sleep(min(delay, max_delay))
sleep_time_uncapped(r) == r.delay
sleep_time(r) == Min(r.delay, r.max_delay)

\* lines 47-49: raise last_exception
exhausted_swallowed(r) == [r EXCEPT !.pc = "returned"]
exhausted(r) == [r EXCEPT !.pc = "raised", !.raised_exception = r.last_exception]

InitRetry ==
    /\ queues = [q \in QueueNames |-> <<>>]
    /\ unacked = [c \in Consumers |-> <<>>]
    /\ unroutable = <<>>
    /\ records = [r \in ReqIds |-> NoRecord]
    /\ breakers = [p \in Processes |-> [d \in Dependencies |-> CircuitBreaker]]
    /\ now = 0
    /\ deliveries = [r \in ReqIds |-> 0]
    /\ reads = [r \in ReqIds |-> <<>>]
    /\ run = NoRun
    /\ EdgeAtRest
    /\ GatewayAtRest
    /\ threads = [t \in Threads |-> IdleThread]
    /\ trials = [streak |-> 0, counted |-> 0]
    /\ \E p \in RetryParams : retry = wrapper(p)

\* lines 35-40 and 47-49: one pass of the loop up to the sleep
Attempt ==
    /\ retry.pc = "attempt"
    /\ \E raises \in BOOLEAN :
          LET tried == [retry EXCEPT !.invocations = @ + 1,
                                     !.outcomes = Append(@, raises)]
              caught == [tried EXCEPT !.last_exception = retry.attempt]
          IN  retry' = IF ~raises
                       THEN [tried EXCEPT !.pc = "returned",
                                          !.returned_from = retry.attempt]
                       ELSE IF retries_left(caught)
                            THEN [caught EXCEPT !.pc = "sleep"]
                            ELSE exhausted(caught)
    /\ UNCHANGED <<pipelineVars, now, gatewayVars, clients, threads, trials>>
    /\ UNCHANGED edgeVars

\* lines 45-46, then the next pass begins
Sleep ==
    /\ retry.pc = "sleep"
    /\ retry' = [retry EXCEPT !.sleeps = Append(@, sleep_time(retry)),
                              !.delay = @ * retry.exponential_base,
                              !.attempt = @ + 1,
                              !.pc = "attempt"]
    /\ now' = now + sleep_time(retry)
    /\ UNCHANGED <<pipelineVars, gatewayVars, clients, threads, trials>>
    /\ UNCHANGED edgeVars

NextRetry ==
    \/ Attempt
    \/ Sleep

SpecRetry == InitRetry /\ [][NextRetry]_vars


(***************************************************************************)
(* Properties of retry_with_backoff.                                       *)
(***************************************************************************)
RECURSIVE Pow(_, _)
Pow(b, n) == IF n = 0 THEN 1 ELSE b * Pow(b, n - 1)

AllFailed == \A i \in DOMAIN retry.outcomes : retry.outcomes[i]
Over == retry.pc \in {"returned", "raised"}

\* the wrapper as the email sender declares it
AsSender ==
    /\ retry.max_retries = max_retries /\ retry.initial_delay = initial_delay
    /\ retry.max_delay = max_delay /\ retry.exponential_base = exponential_base

\* C17: the wrapped operation is invoked at most max_retries + 1 times; a return hands
\* back the result of the first attempt that did not raise, which is the last attempt
\* made; when every attempt raises, exactly max_retries + 1 attempts are made.
C17_AttemptsBounded ==
    /\ retry.invocations = Len(retry.outcomes)
    /\ retry.invocations <= retry.max_retries + 1
    /\ retry.pc = "returned"
       => /\ retry.returned_from = retry.invocations - 1
          /\ ~retry.outcomes[retry.invocations]
          /\ \A i \in 1 .. (retry.invocations - 1) : retry.outcomes[i]
    /\ Over /\ AllFailed => retry.invocations = retry.max_retries + 1
    /\ ~Over => AllFailed

\* the third attempt succeeded and was the last
C17_Witness ==
    /\ retry.pc = "returned"
    /\ retry.invocations = 3
    /\ retry.returned_from = 2
    /\ retry.max_retries = max_retries

\* C18: the k-th sleep lasts min(initial_delay * exponential_base^(k-1), max_delay);
\* there are at most max_retries sleeps, exactly max_retries when every attempt failed,
\* so none follows the last failed attempt; the sender's wrapper (1, 2, 3 retries)
\* sleeps 1, 2, 4 before it fails.
C18_BackoffDelays ==
    /\ \A k \in DOMAIN retry.sleeps :
          retry.sleeps[k] = Min(retry.initial_delay * Pow(retry.exponential_base, k - 1),
                                retry.max_delay)
    /\ Len(retry.sleeps) <= retry.max_retries
    /\ retry.pc = "raised" => Len(retry.sleeps) = retry.max_retries
    /\ retry.pc = "raised" /\ AsSender => retry.sleeps = <<1, 2, 4>>
    /\ Over => Len(retry.sleeps) = retry.invocations - 1

\* a delay was capped: the third sleep of a wrapper with max_delay 3
C18_Witness ==
    /\ retry.pc = "raised"
    /\ retry.max_delay = 3
    /\ Len(retry.sleeps) >= 3
    /\ retry.sleeps[3] = 3
    /\ retry.delay > 3

\* C19: when all max_retries + 1 attempts have failed, the call has raised the exception
\* of the last attempt; it has not returned.
C19_LastFailureRaised ==
    retry.invocations = retry.max_retries + 1 /\ AllFailed
    => /\ retry.pc = "raised"
       /\ retry.raised_exception = retry.max_retries
       /\ retry.returned_from = NoException

\* four attempts of the sender's wrapper failed and the fourth exception was raised
C19_Witness ==
    /\ AsSender
    /\ retry.invocations = 4 /\ AllFailed
    /\ retry.pc = "raised"
    /\ retry.raised_exception = 3


(***************************************************************************)
(* The channel consumers and the user's preferences.                       *)
(***************************************************************************)
\* the last run fetched the user's profile and found the consumer's channel disabled
\* in it (the email consumer looks for the address first)
RunChannelDisabled ==
    /\ Ran
    /\ run.message.body.kind = "object"
    /\ Count(run.ops, "get_user") = 1
    /\ run.answers.user = "data"
    /\ ~run.answers.enabled
    /\ run.consumer = "email" => run.answers.address

\* C20: a message whose channel is disabled in the user's preferences fails validation:
\* 'failed' is reported for its request_id, the message is nacked (requeued or dead-
\* lettered by its retry count), and the sender is not invoked.
C20_DisabledChannelFails ==
    RunChannelDisabled
    => /\ Count(run.ops, "report_failed") = 1
       /\ Count(run.ops, "nack_requeue") + Count(run.ops, "nack_drop") = 1
       /\ Count(run.ops, "ack") = 0
       /\ Count(run.ops, "send") = 0

\* the message was acknowledged and nothing was reported
C20_Witness ==
    /\ RunChannelDisabled
    /\ run.ops = <<"get_user", "ack">>
    /\ records[RunId].status = "pending"

(***************************************************************************)
(* The except block of process_message.                                    *)
(***************************************************************************)
\* position of the first occurrence of an operation in a run's log (0: none)
First(ops, wanted) ==
    IF \E i \in DOMAIN ops : ops[i] \in wanted
    THEN CHOOSE i \in DOMAIN ops :
            /\ ops[i] \in wanted
            /\ \A j \in 1 .. (i - 1) : ops[j] \notin wanted
    ELSE 0

Nacks == {"nack_requeue", "nack_drop"}

\* C21: a run of process_message that fails at any stage attempts exactly one 'failed'
\* status report and after it makes the requeue-or-DLQ decision (one nack), whether or
\* not the report gets through.
C21_FailureReportedOnceThenDecided ==
    (Ran /\ run.failed)
    => /\ Count(run.ops, "report_failed") = 1
       /\ Count(run.ops, "nack_requeue") + Count(run.ops, "nack_drop") = 1
       /\ First(run.ops, {"report_failed"}) < First(run.ops, Nacks)

\* a body that decodes to a JSON value without .get: the decision is made, and no
\* report was attempted
C21_Witness ==
    /\ Ran /\ run.failed
    /\ run.message.body.kind = "array"
    /\ Count(run.ops, "report_failed") = 0
    /\ Count(run.ops, "nack_requeue") + Count(run.ops, "nack_drop") = 1
    /\ records["r1"].status = "pending"

(***************************************************************************)
(* Failures that are not the sender's: an open breaker, a failed           *)
(* validation.                                                             *)
(***************************************************************************)
\* the x-retry-count the except block reads from the delivered message (line 129)
RunRetryCount ==
    IF run.message.headers.present THEN run.message.headers.x_retry_count ELSE 0

\* the last run reported 'failed' once and took the retry-count decision: a nack with
\* requeue below consumer_max_retries, the dead-letter branch from there on
RunFailedByRetryCount ==
    /\ run.failed
    /\ Count(run.ops, "ack") = 0
    /\ Count(run.ops, "report_failed") = 1
    /\ IF RunRetryCount < consumer_max_retries
       THEN /\ Count(run.ops, "nack_requeue") = 1
            /\ Count(run.ops, "nack_drop") = 0
            /\ Count(run.ops, "publish_failed") = 0
       ELSE /\ Count(run.ops, "nack_requeue") = 0
            /\ Count(run.ops, "nack_drop") = 1
            /\ Count(run.ops, "publish_failed") = 1

\* the breaker of a consumer's sender after n failed calls in a row at time 0
RECURSIVE Tripped(_)
Tripped(n) == IF n = 0 THEN CircuitBreaker ELSE call(Tripped(n - 1), 0, TRUE).cb

\* A gateway message waits for a consumer whose sender has just failed failure_threshold
\* times in a row.
InitOpen ==
    /\ \E c \in Consumers :
          /\ queues = [q \in QueueNames |->
                         IF q = ConsumerQueue(c)
                         THEN <<Message(Body("object", "r1"))>> ELSE <<>>]
          /\ breakers = [p \in Processes |-> [d \in Dependencies |->
                           IF p = c /\ d = "send" THEN Tripped(failure_threshold)
                           ELSE CircuitBreaker]]
    /\ unacked = [c \in Consumers |-> <<>>]
    /\ unroutable = <<>>
    /\ records = [r \in ReqIds |-> IF r = "r1" THEN PendingRecord ELSE NoRecord]
    /\ now = 0
    /\ deliveries = [r \in ReqIds |-> 0]
    /\ reads = [r \in ReqIds |-> <<>>]
    /\ run = NoRun
    /\ EdgeAtRest
    /\ GatewayAtRest
    /\ UnitsAtRest

SpecOpen == InitOpen /\ [][Next]_vars

\* the last run came as far as the send and found the sender's breaker OPEN with the
\* recovery timeout not yet over
RunFoundOpen ==
    /\ Ran
    /\ run.message.body.kind = "object"
    /\ run.answers.user = "data" /\ run.answers.address /\ run.answers.enabled
    /\ run.answers.template = "data" /\ run.answers.render = "data"
    /\ Count(run.ops, "render_template") = 1
    /\ run.found = "open"
    /\ ~run.recoverable

\* C22: when the sender's breaker is OPEN and the recovery timeout has not passed, the
\* run fails fast: the sender is not invoked and no backoff sleep is taken; 'failed' is
\* reported and the retry-count decision is made as for any other failure.
C22_OpenBreakerFailsFast ==
    RunFoundOpen
    => /\ Count(run.ops, "send") = 0
       /\ Count(run.ops, "sleep") = 0
       /\ RunFailedByRetryCount

\* a run stopped by the open breaker although the sender would have succeeded
C22_Witness ==
    /\ RunFoundOpen
    /\ run.answers.send_fails = 0
    /\ run.ops = <<"get_user", "get_template", "render_template",
                   "report_failed", "nack_requeue">>

\* the last run failed validation for good: the user or the template does not exist, or
\* the template could not be rendered with the message's variables
RunValidationFailed ==
    /\ Ran
    /\ run.message.body.kind = "object"
    /\ \/ Count(run.ops, "get_user") = 1 /\ run.answers.user = "none"
       \/ /\ Count(run.ops, "get_template") = 1
          /\ run.answers.template = "none"
       \/ /\ Count(run.ops, "render_template") = 1
          /\ run.answers.render # "data"

\* C23: a permanent validation failure invokes the sender zero times and takes the same
\* retry-count decision as any failure: nack with requeue while the count read is below
\* 3, the dead-letter branch only when it has reached 3.
C23_ValidationFailureTakesRetryCheck ==
    RunValidationFailed
    => /\ Count(run.ops, "send") = 0
       /\ RunFailedByRetryCount

\* a first delivery whose user does not exist is requeued, not dead-lettered
C23_Witness ==
    /\ RunValidationFailed
    /\ run.answers.user = "none"
    /\ RunRetryCount = 0
    /\ run.ops = <<"get_user", "report_failed", "nack_requeue">>

\* a missing template at x-retry-count 3 takes the dead-letter branch
C23_WitnessDeadLetter ==
    /\ RunValidationFailed
    /\ run.answers.template = "none"
    /\ RunRetryCount = consumer_max_retries
    /\ run.ops = <<"get_user", "get_template", "report_failed", "nack_drop",
                   "publish_failed">>

(***************************************************************************)
(* The order of the stages of one run.                                     *)
(***************************************************************************)
\* C30: the sender is invoked only after the user was fetched and found with an address
\* (push token) and the channel enabled, then the template was fetched and found, then
\* the render returned a result, in this order; a run in which an earlier stage fails
\* invokes the sender zero times.
C30_SenderAfterEarlierStages ==
    (Ran /\ Count(run.ops, "send") > 0)
    => /\ run.message.body.kind = "object"
       /\ run.answers.user = "data" /\ run.answers.address /\ run.answers.enabled
       /\ run.answers.template = "data"
       /\ run.answers.render = "data"
       /\ Count(run.ops, "get_user") = 1
       /\ Count(run.ops, "get_template") = 1
       /\ Count(run.ops, "render_template") = 1
       /\ First(run.ops, {"get_user"}) < First(run.ops, {"get_template"})
       /\ First(run.ops, {"get_template"}) < First(run.ops, {"render_template"})
       /\ First(run.ops, {"render_template"}) < First(run.ops, {"send"})

\* a run that reached the sender, which failed twice and then returned
C30_Witness ==
    /\ Ran
    /\ run.ops = <<"get_user", "get_template", "render_template",
                   "send", "sleep", "send", "sleep", "send",
                   "report_delivered", "ack">>

(***************************************************************************)
(* Admission and consumption together: one gateway worker, the broker and  *)
(* both channel consumers.  The clock stands still, so no idempotency      *)
(* entry expires between the EXISTS and the GET of a duplicate request and *)
(* the SETEX of that check_and_store is not reached; the consumers'        *)
(* collaborators all answer.                                               *)
(***************************************************************************)
\* the x-retry-count a consumer reads from a message's properties (line 129)
retry_count(m) == IF m.headers.present THEN m.headers.x_retry_count ELSE 0

\* Answers with which every stage of a run works, and answers with which the user
\* does not exist; the status endpoint answers.
Working == Answers("data", TRUE, TRUE, "data", "data", 0, TRUE)
UserMissing == Answers("none", TRUE, TRUE, "data", "data", 0, TRUE)

\* the on_message_callback runs for the oldest delivery of the consumer's channel, the
\* collaborators answering as one of `ins`; the histories stop growing at MaxDeliveries
Consume(c, ins) ==
    /\ unacked[c] # <<>>
    /\ LET m == Head(unacked[c])
           rid == m.body.request_id
       IN  \E in \in ins :
            \E after \in {process_message(
                             Context(queues, unacked, unroutable, records, breakers),
                             c, m, now, in)} :
              LET failed == \E i \in DOMAIN after.ops : after.ops[i] \in Nacks
              IN  /\ queues' = after.queues
                  /\ unacked' = after.unacked
                  /\ unroutable' = after.unroutable
                  /\ records' = after.records
                  /\ breakers' = after.breakers
                  /\ deliveries' = IF rid \in ReqIds
                                   THEN [deliveries EXCEPT ![rid] =
                                           Min(@ + 1, MaxDeliveries)]
                                   ELSE deliveries
                  /\ reads' = IF rid \in ReqIds /\ failed
                                 /\ Len(reads[rid]) < MaxDeliveries
                              THEN [reads EXCEPT ![rid] = Append(@, retry_count(m))]
                              ELSE reads
                  /\ run' = [consumer |-> c, message |-> m, answers |-> in,
                             ops |-> after.ops, props |-> after.props,
                             failed |-> failed,
                             found |-> breakers[c]["send"].state,
                             recoverable |->
                                 /\ breakers[c]["send"].state = "open"
                                 /\ now - breakers[c]["send"].last_failure_time
                                    > recovery_timeout]
    /\ UNCHANGED now
    /\ UNCHANGED <<gatewayVars, clients>>
    /\ UNCHANGED unitVars
    /\ UNCHANGED edgeVars

NextAdmitAndConsume ==
    \/ Admit("w1")
    \/ IsDuplicate("w1")
    \/ CachedGet("w1")
    \/ Validate("w1")
    \/ CreateRecord("w1")
    \/ Publish("w1")
    \/ StoreGet("w1")
    \/ StoreSet("w1")
    \/ Return("w1")
    \/ \E c \in Consumers : Deliver(c)
    \/ \E c \in Consumers : Consume(c, {Working})

SpecAdmitAndConsume == InitGateway /\ [][NextAdmitAndConsume]_vars

\* the call's publish has gone through
HasPublished(request) ==
    \/ request.pc \in {"store_get", "store_set"}
    \/ /\ request.pc = "done"
       /\ Count(request.ops, "publish") = 1
       /\ request.response.error # "publish"

\* the messages a consumer holds or has last processed
Held(c) ==
    { unacked[c][i] : i \in DOMAIN unacked[c] }
    \cup (IF run.consumer = c THEN {run.message} ELSE {})

\* C27: a message published by create_notification is persistent (delivery_mode 2),
\* carries no x-retry-count, so that the consumer reads 0 on its first delivery, and is
\* routed by the channel name alone: it reaches the queue of its channel and no other,
\* and only the consumer of that channel is handed it.
C27_PersistentCountZeroRoutedByChannel ==
    /\ unroutable = <<>>
    /\ Ran => RunRetryCount = 0
    /\ \A c \in Consumers : \A i \in DOMAIN unacked[c] :
          unacked[c][i].delivery_mode = 2
    /\ \A q \in QueueNames : \A i \in DOMAIN queues[q] :
          /\ queues[q][i].delivery_mode = 2
          /\ q # "failed.queue" => retry_count(queues[q][i]) = 0
    /\ LET request == calls["w1"]
           mine == Message(Body("object", request.request_id))
           other == IF request.notification_type = "email" THEN "push" ELSE "email"
       IN  HasPublished(request)
           => /\ mine \notin Held(other)
              /\ Copies(ConsumerQueue(other), mine.body) = 0
              /\ deliveries[request.request_id] = 0
                 => /\ Copies(ConsumerQueue(request.notification_type), mine.body)
                          + Cardinality({ i \in DOMAIN unacked[request.notification_type] :
                               unacked[request.notification_type][i] = mine }) = 1
                    /\ Copies("failed.queue", mine.body) = 0

\* a push request has been published and handed to the push consumer, which has read
\* x-retry-count 0 from it
C27_Witness ==
    /\ HasPublished(calls["w1"])
    /\ calls["w1"].notification_type = "push"
    /\ calls["w1"].request_id = "r2"
    /\ run.consumer = "push" /\ RunId = "r2"
    /\ RunDelivered /\ RunRetryCount = 0
    /\ queues["email.queue"] = <<>>

(***************************************************************************)
(* Requests that create_notification turns away.                           *)
(***************************************************************************)
\* the error responses of lines 92-96 and 108-128
ValidationErrors ==
    {"Unauthorized", "User not found", "Template not found", "Template type mismatch"}

\* the call was answered with a validation error and was no duplicate: is_duplicate
\* was not reached or returned False, so check_and_store was not called before
RejectedInValidation(request) ==
    /\ request.response.error \in ValidationErrors
    /\ Count(request.ops, "get") = 0

\* C29: a request that is no duplicate and is rejected in validation (another user's
\* id, user not found, template not found, template of another channel) is answered
\* with an error; the call commits no notification row, publishes no message and
\* stores no idempotency entry.
C29_RejectedRequestLeavesNothing ==
    \A w \in Workers :
        RejectedInValidation(calls[w])
        => /\ calls[w].pc = "done"
           /\ ~calls[w].response.success
           /\ Count(calls[w].ops, "insert") = 0
           /\ Count(calls[w].ops, "publish") = 0
           /\ Count(calls[w].ops, "setex") = 0

\* the first request of the system names a template of the other channel: nothing of it
\* is in the database, the broker or Redis
C29_Witness ==
    /\ ncalls = 1
    /\ calls["w1"].response.error = "Template type mismatch"
    /\ calls["w1"].ops = <<"exists", "get_user", "get_template">>
    /\ \A r \in ReqIds : ~records[r].exists
    /\ \A q \in QueueNames : queues[q] = <<>>
    /\ \A k \in Keys : ~redis[k].present

(***************************************************************************)
(* start_consuming: the supervision loop of a consumer's thread.           *)
(*     while True:                                                         *)
(*         try: connect(); basic_qos; basic_consume; start_consuming()     *)
(*         except Exception: time.sleep(5)                                 *)
(* A loop is at "connect", inside start_consuming ("consuming") or in the  *)
(* sleep of its except branch ("sleep"); "terminated" would be a thread    *)
(* that an exception has left.                                             *)
(***************************************************************************)
\* an except branch that lets the exception go: the thread ends
on_consumer_error_exits(consumer) ==
    [consumer EXCEPT !.pc = "terminated", !.errors = Min(@ + 1, MaxErrors)]

\* lines 166-169: the exception is caught and logged, the thread sleeps
on_consumer_error(consumer) ==
    [consumer EXCEPT !.pc = "sleep", !.delay = reconnect_delay,
                     !.errors = Min(@ + 1, MaxErrors)]

\* lines 155-164: connect() raises when the broker is away; otherwise the consumer is
\* registered on its queue with its prefetch limit and start_consuming blocks
Connect(c) ==
    /\ consumers[c].pc = "connect"
    /\ consumers' = [consumers EXCEPT ![c] =
                        IF broker.up THEN [@ EXCEPT !.pc = "consuming", !.delay = 0]
                        ELSE on_consumer_error(@)]
    /\ UNCHANGED <<pipelineVars, now, gatewayVars, clients, unitVars, broker, endpoint>>

\* start_consuming raises: the connection is gone.  The broker puts the deliveries the
\* consumer has not settled back at the head of its queue, in their order.
ConnectionLost(c) ==
    /\ consumers[c].pc = "consuming"
    /\ ~broker.up \/ consumers[c].errors < MaxErrors
    /\ queues' = [queues EXCEPT ![ConsumerQueue(c)] = unacked[c] \o @]
    /\ unacked' = [unacked EXCEPT ![c] = <<>>]
    /\ consumers' = [consumers EXCEPT ![c] = on_consumer_error(@)]
    /\ UNCHANGED <<unroutable, records, breakers, deliveries, reads, run>>
    /\ UNCHANGED <<now, gatewayVars, clients, unitVars, broker, endpoint>>

\* line 169: time.sleep(5) returns and the loop starts over
Wake(c) ==
    /\ consumers[c].pc = "sleep"
    /\ consumers' = [consumers EXCEPT ![c] = [@ EXCEPT !.pc = "connect"]]
    /\ UNCHANGED <<pipelineVars, now, gatewayVars, clients, unitVars, broker, endpoint>>

\* RabbitMQ stops; its durable queues and persistent messages are kept
BrokerDown ==
    /\ broker.up
    /\ broker.outages < MaxOutages
    /\ broker' = [up |-> FALSE, outages |-> broker.outages + 1]
    /\ UNCHANGED <<pipelineVars, now, gatewayVars, clients, unitVars, consumers, endpoint>>

BrokerUp ==
    /\ ~broker.up
    /\ broker' = [broker EXCEPT !.up = TRUE]
    /\ UNCHANGED <<pipelineVars, now, gatewayVars, clients, unitVars, consumers, endpoint>>

\* A request has been admitted: its record is pending and its message, as the gateway
\* published it, waits in the queue of its channel.
InitSupervised ==
    /\ \E c \in Consumers :
          queues = [q \in QueueNames |->
                      IF q = ConsumerQueue(c)
                      THEN <<Message(Body("object", "r1"))>> ELSE <<>>]
    /\ unacked = [c \in Consumers |-> <<>>]
    /\ unroutable = <<>>
    /\ records = [r \in ReqIds |-> IF r = "r1" THEN PendingRecord ELSE NoRecord]
    /\ breakers = [p \in Processes |-> [d \in Dependencies |-> CircuitBreaker]]
    /\ now = 0
    /\ deliveries = [r \in ReqIds |-> 0]
    /\ reads = [r \in ReqIds |-> <<>>]
    /\ run = NoRun
    /\ EdgeAtRest
    /\ GatewayAtRest
    /\ UnitsAtRest

NextSupervised ==
    \/ \E c \in Consumers : Connect(c)
    \/ \E c \in Consumers : ConnectionLost(c)
    \/ \E c \in Consumers : Wake(c)
    \/ BrokerDown
    \/ BrokerUp
    \/ \E c \in Consumers : Deliver(c)
    \/ \E c \in Consumers : Consume(c, {Working, UserMissing})

\* The threads run, a sleep returns, the broker delivers to a registered consumer and
\* the callback it invokes returns.  The callback's weak fairness is written out:
\* Consume(c, ..) is enabled exactly when unacked[c] is not empty.
FairSupervised ==
    \A c \in Consumers :
        /\ WF_vars(Connect(c))
        /\ WF_vars(Wake(c))
        /\ WF_vars(Deliver(c))
        /\ \/ []<>(unacked[c] = <<>>)
           \/ []<><<Consume(c, {Working, UserMissing})>>_vars

SpecSupervised == InitSupervised /\ [][NextSupervised]_vars /\ FairSupervised

BrokerStaysUp == <>[](broker.up)

\* C24: the supervision loop never ends on an error: an exception from connecting or
\* from consuming puts the thread to sleep for 5 seconds, after which it connects
\* again; if the broker stays available, each consumer is consuming again and again.
C24_SupervisionLoopResumes ==
    /\ [](\A c \in Consumers :
            /\ consumers[c].pc \in {"connect", "consuming", "sleep"}
            /\ consumers[c].pc = "sleep" => consumers[c].delay = reconnect_delay)
    /\ [][\A c \in Consumers :
            /\ (consumers[c].errors # consumers'[c].errors) => consumers'[c].pc = "sleep"
            /\ (consumers[c].pc = "sleep" /\ consumers'[c].pc # "sleep")
               => consumers'[c].pc = "connect"]_vars
    /\ BrokerStaysUp => []<>(consumers["email"].pc = "consuming")
    /\ BrokerStaysUp => []<>(consumers["push"].pc = "consuming")

\* after an outage of the broker and a lost connection the email consumer is back
\* in start_consuming
C24_Witness ==
    /\ broker.up /\ broker.outages = 1
    /\ consumers["email"].errors = MaxErrors
    /\ consumers["email"].pc = "consuming"

\* the message of request r1 has been acknowledged or is in the dead-letter queue
Settled ==
    \/ Ran /\ RunId = "r1" /\ Count(run.ops, "ack") > 0
    \/ InQueue("failed.queue", Body("object", "r1"))

\* the message is with the broker: in its channel queue or unacknowledged on a channel
WithBroker ==
    \/ InChannelQueue(Body("object", "r1"))
    \/ \E c \in Consumers : \E i \in DOMAIN unacked[c] :
          unacked[c][i].body = Body("object", "r1")

\* C25: a published message that has not been acknowledged stays with the broker across
\* connection losses and is redelivered, and in the end it is acknowledged after a
\* processing attempt or lies in the dead-letter queue.
C25_EveryMessageAckedOrDeadLettered ==
    /\ [](~Settled => WithBroker)
    /\ BrokerStaysUp => <>Settled

\* the message is back in its queue after its consumer lost the connection holding it
C25_Witness ==
    /\ ~Ran
    /\ consumers["email"].pc = "sleep"
    /\ queues["email.queue"] = <<Message(Body("object", "r1"))>>
    /\ unacked["email"] = <<>>
    /\ consumers["email"].errors = 1 /\ broker.up

(***************************************************************************)
(* basic_qos(prefetch_count=10): a queue with more messages waiting than   *)
(* the consumer may hold.                                                  *)
(***************************************************************************)
\* messages of MaxBacklog requests (of other gateways' records) in publishing order
Backlog == [i \in 1 .. MaxBacklog |-> Message(Body("object", "b" \o ToString(i)))]

InitBacklog ==
    /\ \E c \in Consumers :
          queues = [q \in QueueNames |-> IF q = ConsumerQueue(c) THEN Backlog ELSE <<>>]
    /\ unacked = [c \in Consumers |-> <<>>]
    /\ unroutable = <<>>
    /\ records = [r \in ReqIds |-> NoRecord]
    /\ breakers = [p \in Processes |-> [d \in Dependencies |-> CircuitBreaker]]
    /\ now = 0
    /\ deliveries = [r \in ReqIds |-> 0]
    /\ reads = [r \in ReqIds |-> <<>>]
    /\ run = NoRun
    /\ EdgeAtRest
    /\ GatewayAtRest
    /\ UnitsAtRest

\* the user of the first request of the backlog does not exist, the others' do
AnswersFor(m) == IF m.body.request_id = "b1" THEN {UserMissing} ELSE {Working}

NextBacklog ==
    \/ \E c \in Consumers : Deliver(c)
    \/ \E c \in Consumers :
          /\ unacked[c] # <<>>
          /\ Consume(c, AnswersFor(Head(unacked[c])))

SpecBacklog == InitBacklog /\ [][NextBacklog]_vars

\* C26: a consumer holds at most prefetch_count = 10 delivered messages it has not
\* acked or nacked; with 10 held, the broker hands it nothing more until one is settled.
C26_PrefetchBound ==
    \A c \in Consumers : Len(unacked[c]) <= prefetch_count

\* ten messages are held and the rest of the backlog waits in the queue
C26_Witness ==
    \E c \in Consumers :
        /\ Len(unacked[c]) = prefetch_count
        /\ Len(queues[ConsumerQueue(c)]) = MaxBacklog - prefetch_count
        /\ queues[ConsumerQueue(c)] # <<>>

(***************************************************************************)
(* The gateway's two status endpoints, called from outside the consumers.  *)
(***************************************************************************)
Statuses == {"delivered", "pending", "failed"}

\* POST /api/v1/notifications/{id}/status (user endpoint): the authenticated user must
\* be the notification's user; no service token is asked for
update_notification_status_user(recs, id, status, has_error, owner) ==
    IF ~recs[id].exists THEN recs
    ELSE IF ~owner THEN recs
    ELSE [recs EXCEPT ![id] = [exists |-> TRUE, status |-> status,
                               error |-> IF has_error THEN TRUE ELSE @.error]]

\* a request to the internal endpoint, with the service token or with another one
InternalStatusRequest ==
    /\ \E id \in ReqIds, status \in Statuses, has_error \in BOOLEAN, token_ok \in BOOLEAN :
          LET after == update_notification_status_internal(records, id, status,
                                                           has_error, token_ok)
          IN  /\ records' = after
              /\ endpoint' = [path |-> "internal", id |-> id, status |-> status,
                              has_error |-> has_error, authorized |-> token_ok,
                              changed |-> after # records]
    /\ UNCHANGED <<queues, unacked, unroutable, breakers, deliveries, reads, run>>
    /\ UNCHANGED <<now, gatewayVars, clients, unitVars, consumers, broker>>

\* a request of a logged-in user to the user endpoint
UserStatusRequest ==
    /\ \E id \in ReqIds, status \in Statuses, has_error \in BOOLEAN, owner \in BOOLEAN :
          LET after == update_notification_status_user(records, id, status,
                                                       has_error, owner)
          IN  /\ records' = after
              /\ endpoint' = [path |-> "user", id |-> id, status |-> status,
                              has_error |-> has_error, authorized |-> owner,
                              changed |-> after # records]
    /\ UNCHANGED <<queues, unacked, unroutable, breakers, deliveries, reads, run>>
    /\ UNCHANGED <<now, gatewayVars, clients, unitVars, consumers, broker>>

NextStatus ==
    \/ InternalStatusRequest
    \/ UserStatusRequest
    \/ \E c \in Consumers : Deliver(c)
    \/ \E c \in Consumers : Consume(c, {Working, UserMissing})

SpecStatus == InitSupervised /\ [][NextStatus]_vars

\* this step is a run of process_message whose Status Reporter call went out
ReporterStep ==
    /\ unacked' # unacked
    /\ Count(run'.ops, "report_delivered") + Count(run'.ops, "report_failed") = 1

\* this step is a request to the internal endpoint that carried the service token
TokenStep ==
    /\ unacked' = unacked
    /\ endpoint'.path = "internal"
    /\ endpoint'.authorized

\* C28: once created, a record's status and error change only by a Status Reporter
\* call to the internal endpoint that carries the valid service token; no other
\* operation changes them.
C28_StatusChangesOnlyThroughReporter ==
    [][\A r \in ReqIds :
          (records[r].exists /\ records'[r] # records[r])
          => (ReporterStep \/ TokenStep)]_vars

\* the owner has set the pending notification to 'delivered' through the user
\* endpoint; no consumer has processed its message
C28_Witness ==
    /\ ~Ran
    /\ endpoint.path = "user" /\ endpoint.authorized /\ endpoint.changed
    /\ endpoint.id = "r1" /\ endpoint.status = "delivered"
    /\ records["r1"].status = "delivered"

(***************************************************************************)
(* What a run reports.                                                     *)
(***************************************************************************)
\* position of the last occurrence of an operation in a run's log (0: none)
Last(ops, wanted) ==
    IF \E i \in DOMAIN ops : ops[i] \in wanted
    THEN CHOOSE i \in DOMAIN ops :
            /\ ops[i] \in wanted
            /\ \A j \in (i + 1) .. Len(ops) : ops[j] \notin wanted
    ELSE 0

\* C31: a run reports 'delivered' only after the sender has returned success in this
\* run: its last attempt did not raise and precedes the report; a run whose sender
\* failed on every attempt or was not invoked reports no 'delivered'.
C31_DeliveredOnlyAfterSend ==
    (Ran /\ Count(run.ops, "report_delivered") > 0)
    => /\ Count(run.ops, "report_delivered") = 1
       /\ run.answers.send_fails <= max_retries
       /\ Count(run.ops, "send") = run.answers.send_fails + 1
       /\ Last(run.ops, {"send"}) < First(run.ops, {"report_delivered"})
       /\ Count(run.ops, "report_failed") = 0

\* the sender succeeded on its fourth attempt and 'delivered' was reported
C31_Witness ==
    /\ Ran
    /\ run.answers.send_fails = max_retries
    /\ Count(run.ops, "send") = max_retries + 1
    /\ Count(run.ops, "report_delivered") = 1
    /\ records[RunId].status = "delivered"

(***************************************************************************)
(* The order of create_notification's effects.                             *)
(***************************************************************************)
\* the messages a channel queue holds or a consumer has been handed
InFlight ==
    UNION { { queues[q][i] : i \in DOMAIN queues[q] } : q \in {"email.queue", "push.queue"} }
    \cup UNION { { unacked[c][i] : i \in DOMAIN unacked[c] } : c \in Consumers }

\* in a call's log the insert precedes the publish, and a SETEX that follows the insert
\* follows the publish
InsertPublishStore(ops) ==
    /\ \A j \in DOMAIN ops :
          ops[j] = "publish" => \E i \in 1 .. (j - 1) : ops[i] = "insert"
    /\ \A i, j \in DOMAIN ops :
          (i < j /\ ops[i] = "insert" /\ ops[j] = "setex")
          => \E k \in (i + 1) .. (j - 1) : ops[k] = "publish"

\* C32: create_notification commits the record, then publishes the message, then
\* stores the idempotency result; so every message in a channel queue or in flight at
\* a consumer has a notification record with its request_id.
C32_RecordBeforeMessage ==
    /\ \A w \in Workers : InsertPublishStore(calls[w].ops)
    /\ \A m \in InFlight : records[m.body.request_id].exists

\* the message is already with its consumer while the call that published it has not
\* yet stored the idempotency result
C32_Witness ==
    /\ calls["w1"].pc = "store_get"
    /\ calls["w1"].ops = <<"exists", "get_user", "get_template", "insert", "publish">>
    /\ \E c \in Consumers :
          /\ unacked[c] = <<Message(Body("object", calls["w1"].request_id))>>
          /\ records[calls["w1"].request_id] = PendingRecord

(***************************************************************************)
(* Errors of create_notification after the record was committed.           *)
(***************************************************************************)
\* the call's own db.commit went through
Committed(request) ==
    /\ Count(request.ops, "insert") = 1
    /\ request.pc \in {"publish", "store_get", "store_set"}
       \/ (request.pc = "done" /\ request.response.error # "IntegrityError")

\* C33: a call that returns an error has left no notification record behind, and every
\* record that exists has had its message published, even when the publish or the
\* idempotency store fails after the commit.
C33_ErrorLeavesNoRecord ==
    /\ \A w \in Workers :
          (calls[w].pc = "done" /\ ~calls[w].response.success /\ Committed(calls[w]))
          => ~records[calls[w].request_id].exists
    /\ \A r \in ReqIds :
          (records[r].exists
             /\ \A w \in Workers : ~(calls[w].pc = "publish" /\ calls[w].request_id = r))
          => published[r] >= 1

\* the publish failed after the commit: the caller got an error, the record is there
\* and pending, and no message for it exists
C33_Witness ==
    /\ calls["w1"].pc = "done"
    /\ calls["w1"].response.error = "publish"
    /\ calls["w1"].ops = <<"exists", "get_user", "get_template", "insert", "publish">>
    /\ records[calls["w1"].request_id] = PendingRecord
    /\ published[calls["w1"].request_id] = 0
    /\ \A q \in QueueNames : queues[q] = <<>>

(***************************************************************************)
(* The record of a request whose message is processed more than once.      *)
(***************************************************************************)
\* C35: a record with status 'delivered' carries no error; the 'delivered' update of a
\* later attempt clears the error an earlier failed attempt has set.
C35_DeliveredCarriesNoError ==
    \A r \in ReqIds : records[r].status = "delivered" => ~records[r].error

\* the message failed once (the sender raised on all attempts), was requeued, and was
\* delivered on its second delivery: the record is 'delivered' and still has the error
C35_Witness ==
    /\ RunDelivered /\ RunId = "r1"
    /\ PublishedByGateway(run.message)
    /\ deliveries["r1"] = 2 /\ Len(reads["r1"]) = 1
    /\ records["r1"] = [exists |-> TRUE, status |-> "delivered", error |-> TRUE]

(***************************************************************************)
(* A connection that goes while the callback runs.  The send and its       *)
(* retries take seconds; the status reports travel over HTTP and are not   *)
(* affected, the frames written to the channel never reach the broker.     *)
(***************************************************************************)
\* process_message on a channel whose connection has gone.  `raises` is whether pika
\* has noticed (basic_ack and basic_nack raise on the closed channel) or the frame is
\* written to a dead socket and lost.  A basic_ack that raises does so inside the try
\* block, so the except block reports 'failed' and its basic_nack raises in turn.
process_message_cut_off(ctx, c, m, t, in, raises) ==
    LET after == process_message(ctx, c, m, t, in)
        ended == IF ~raises THEN after
                 ELSE IF Count(after.ops, "ack") > 0
                 THEN Log(update_notification_status(after, ReportId(m), "failed", TRUE,
                                                     in.reachable).ctx,
                          IF retry_count(m) < consumer_max_retries
                          THEN "nack_requeue" ELSE "nack_drop")
                 ELSE [after EXCEPT !.ops = SubSeq(@, 1, First(@, Nacks))]
    IN  [ended EXCEPT !.queues = ctx.queues, !.unacked = ctx.unacked,
                      !.unroutable = ctx.unroutable]

\* The callback of the delivery at the head of the channel runs and the connection goes
\* before it settles the delivery: the broker puts the unsettled deliveries back at the
\* head of the queue, start_consuming raises and the supervision loop sleeps.
ConsumeCutOff(c, ins) ==
    /\ unacked[c] # <<>>
    /\ consumers[c].errors < MaxErrors
    /\ LET m == Head(unacked[c])
           rid == m.body.request_id
       IN  \E in \in ins : \E raises \in BOOLEAN :
            \E after \in {process_message_cut_off(
                             Context(queues, unacked, unroutable, records, breakers),
                             c, m, now, in, raises)} :
              LET failed == \E i \in DOMAIN after.ops : after.ops[i] \in Nacks
              IN  /\ queues' = [queues EXCEPT ![ConsumerQueue(c)] = unacked[c] \o @]
                  /\ unacked' = [unacked EXCEPT ![c] = <<>>]
                  /\ records' = after.records
                  /\ breakers' = after.breakers
                  /\ deliveries' = IF rid \in ReqIds
                                   THEN [deliveries EXCEPT ![rid] =
                                           Min(@ + 1, MaxDeliveries)]
                                   ELSE deliveries
                  /\ reads' = IF rid \in ReqIds /\ failed
                                 /\ Len(reads[rid]) < MaxDeliveries
                              THEN [reads EXCEPT ![rid] = Append(@, retry_count(m))]
                              ELSE reads
                  /\ run' = [consumer |-> c, message |-> m, answers |-> in,
                             ops |-> after.ops, props |-> after.props,
                             failed |-> failed,
                             found |-> breakers[c]["send"].state,
                             recoverable |->
                                 /\ breakers[c]["send"].state = "open"
                                 /\ now - breakers[c]["send"].last_failure_time
                                    > recovery_timeout]
    /\ consumers' = [consumers EXCEPT ![c] = on_consumer_error(@)]
    /\ UNCHANGED <<unroutable, now, gatewayVars, clients, unitVars, broker, endpoint>>

NextCutOff ==
    \/ \E c \in Consumers : Connect(c)
    \/ \E c \in Consumers : Wake(c)
    \/ \E c \in Consumers : Deliver(c)
    \/ \E c \in Consumers : Consume(c, {Working, UserMissing})
    \/ \E c \in Consumers : ConsumeCutOff(c, {Working, UserMissing})

SpecCutOff == InitSupervised /\ [][NextCutOff]_vars

\* C34: once the record of a request is 'delivered', no step of the delivery pipeline
\* (redeliveries, retries and repeated deliveries of the same message included) takes
\* it back to 'failed' or 'pending'.
C34_DeliveredIsFinal ==
    [][\A r \in ReqIds :
          records[r].status = "delivered" => records'[r].status = "delivered"]_vars

\* the notification was sent and reported 'delivered'; the acknowledgement raised on
\* the closed channel and the except block of the same run reported 'failed'
C34_Witness ==
    /\ Ran /\ RunId = "r1"
    /\ Count(run.ops, "send") = 1
    /\ First(run.ops, {"report_delivered"}) > 0
    /\ First(run.ops, {"report_delivered"}) < First(run.ops, {"report_failed"})
    /\ records["r1"].status = "failed"
    /\ \E c \in Consumers : InQueue(ConsumerQueue(c), Body("object", "r1"))

\* the message came again after its 'delivered' report and the user was gone
C34_WitnessRedelivered ==
    /\ Ran /\ RunId = "r1"
    /\ deliveries["r1"] = 2
    /\ run.answers = UserMissing
    /\ Count(run.ops, "report_delivered") = 0
    /\ records["r1"].status = "failed"

(***************************************************************************)
(* A request id that comes again after its idempotency entry has gone.     *)
(***************************************************************************)
\* the call came after a successful one with its request id and got as far as the insert
AdmittedAgain(w) ==
    /\ calls[w].after_success
    /\ Count(calls[w].ops, "insert") = 1
    /\ calls[w].pc = "done"

\* C36: after the idempotency entry of a successfully admitted request id has expired,
\* or has been replaced by an empty cached result, a further call with that request id
\* publishes no second message and creates no second record.
C36_NoSecondAfterExpiry ==
    /\ \A r \in succeeded :
          /\ published[r] = 1 /\ inserted[r] = 1
          /\ records[r].exists
    /\ \A w \in Workers :
          calls[w].after_success
          => /\ Count(calls[w].ops, "publish") = 0
             /\ calls[w].pc \notin {"publish", "store_get", "store_set"}
             /\ AdmittedAgain(w) => calls[w].response.error = "IntegrityError"

\* the entry had expired when the second call asked for it: the call passed the
\* duplicate check, and its insert was refused
C36_Witness ==
    /\ AdmittedAgain("w1")
    /\ now >= ttl
    /\ calls["w1"].ops = <<"exists", "get_user", "get_template", "insert">>
    /\ calls["w1"].response.error = "IntegrityError"
    /\ published[calls["w1"].request_id] = 1

\* the entry expired between the duplicate check and the read of the cached result:
\* the call stored an empty result in its place and went on to the insert
C36_WitnessEmptyResult ==
    /\ AdmittedAgain("w1")
    /\ calls["w1"].ops = <<"exists", "get", "setex", "get_user", "get_template", "insert">>
    /\ redis[CallKey(calls["w1"])].value = json_dumps(EmptyResult)
    /\ published[calls["w1"].request_id] = 1

(***************************************************************************)
(* The fields of a circuit breaker used by one caller at a time.           *)
(***************************************************************************)
\* C37: in every reachable state of a sequentially used breaker, CLOSED implies that
\* failure_count is below failure_threshold, and OPEN implies that last_failure_time
\* has been set, so that the elapsed-time comparison of call is defined.
C37_BreakerFieldsConsistent ==
    \A p \in Processes : \A d \in Dependencies :
        LET b == breakers[p][d]
        IN  /\ b.state = "closed" => b.failure_count < failure_threshold
            /\ b.state = "open" => b.last_failure_time # NoTime
            /\ b.last_failure_time # NoTime => b.last_failure_time <= now

\* the fifth failure in a row has just opened the breaker, at a time after the start
C37_Witness ==
    /\ breaker.state = "open"
    /\ breaker.failure_count = failure_threshold
    /\ breaker.last_failure_time = now /\ now > 0
    /\ threads["t1"].pc = "done" /\ threads["t1"].found = "closed"

\* one failure short of the threshold the breaker is still closed
C37_WitnessClosed ==
    /\ breaker.state = "closed"
    /\ breaker.failure_count = failure_threshold - 1
    /\ threads["t1"].pc = "done" /\ threads["t1"].raised

(***************************************************************************)
(* Both consumers at work, each on a message of its own queue.             *)
(***************************************************************************)
TemplateDown == Answers("data", TRUE, TRUE, "raise", "data", 0, TRUE)
SendDown == Answers("data", TRUE, TRUE, "data", "data", max_retries + 1, TRUE)

InitBoth ==
    /\ queues = [q \in QueueNames |->
                   IF q = "email.queue" THEN <<Message(Body("object", "r1"))>>
                   ELSE IF q = "push.queue" THEN <<Message(Body("object", "r2"))>>
                   ELSE <<>>]
    /\ unacked = [c \in Consumers |-> <<>>]
    /\ unroutable = <<>>
    /\ records = [r \in ReqIds |-> PendingRecord]
    /\ breakers = [p \in Processes |-> [d \in Dependencies |-> CircuitBreaker]]
    /\ now = 0
    /\ deliveries = [r \in ReqIds |-> 0]
    /\ reads = [r \in ReqIds |-> <<>>]
    /\ run = NoRun
    /\ EdgeAtRest
    /\ GatewayAtRest
    /\ UnitsAtRest

NextBoth ==
    \/ \E c \in Consumers : Deliver(c)
    \/ \E c \in Consumers : Consume(c, {Working, TemplateDown, SendDown})

SpecBoth == InitBoth /\ [][NextBoth]_vars

\* the breaker has counted a failure or has opened
Worse(b, after) ==
    \/ after.failure_count > b.failure_count
    \/ after.state = "open" /\ b.state # "open"

\* C38: breakers are per dependency and per process.  A step changes a breaker only if
\* it is a run of that breaker's process in which that dependency was called; a breaker
\* counts a failure or opens only if its dependency is the one the run failed at (the
\* last one it called), so the failure of one dependency never touches the counter or
\* the state of another, and the email and push delivery breakers move independently.
C38_BreakersPerDependency ==
    [][\A p \in Processes : \A d \in Dependencies :
          /\ breakers'[p][d] # breakers[p][d]
             => /\ run'.consumer = p
                /\ Count(run'.ops, d) > 0
          /\ Worse(breakers[p][d], breakers'[p][d])
             => /\ run'.failed
                /\ Last(run'.ops, Dependencies) = Last(run'.ops, {d})]_vars

\* the email sender is down and its breaker has opened, the template service has
\* failed the email consumer once; the push consumer delivers, all its breakers clean
C38_Witness ==
    /\ breakers["email"]["send"].state = "open"
    /\ breakers["email"]["get_template"].failure_count = 1
    /\ breakers["email"]["get_user"] = CircuitBreaker
    /\ Ran /\ run.consumer = "push" /\ RunDelivered
    /\ \A d \in Dependencies : breakers["push"][d] = CircuitBreaker

(***************************************************************************)
(* The retry wrapper inside the circuit breaker.                           *)
(***************************************************************************)
\* the step is a run of consumer c's callback: it settles the delivery it was handed
RunStep(c) == Len(unacked'[c]) < Len(unacked[c]) /\ run'.consumer = c

\* C39: the retry wrapper sits inside the breaker, so one run of process_message
\* invokes the sender's send at most max_retries + 1 = 4 times and raises the delivery
\* breaker's failure counter by at most one: a send that fails on all 4 attempts is one
\* breaker failure, and a send that succeeds on a retry is a breaker success.
C39_OneBreakerCallPerRun ==
    [][\A c \in Consumers :
          LET b == breakers[c]["send"]
              after == breakers'[c]["send"]
              sends == Count(run'.ops, "send")
          IN  /\ after.failure_count <= b.failure_count + 1
              /\ RunStep(c)
                 => /\ sends <= max_retries + 1
                    /\ (sends > 0 /\ run'.answers.send_fails > max_retries)
                       => /\ sends = max_retries + 1
                          /\ after.failure_count = b.failure_count + 1
                          /\ run'.failed
                    /\ (sends > 0 /\ run'.answers.send_fails <= max_retries)
                       => /\ sends = run'.answers.send_fails + 1
                          /\ after.failure_count = 0 /\ after.state = "closed"
                          /\ ~run'.failed
                    /\ sends = 0 => after = b]_vars

\* the first delivery of the message: the send failed on all four attempts and the
\* breaker has counted one failure
C39_Witness ==
    /\ Ran /\ run.failed
    /\ PublishedByGateway(run.message) /\ deliveries[RunId] = 1
    /\ run.answers.send_fails = max_retries + 1
    /\ Count(run.ops, "send") = max_retries + 1
    /\ breakers[run.consumer]["send"].failure_count = 1
    /\ breakers[run.consumer]["send"].state = "closed"

\* on a later delivery the send succeeded on its last retry: the breaker counts a success
C39_WitnessSuccessOnRetry ==
    /\ RunDelivered
    /\ PublishedByGateway(run.message) /\ deliveries[RunId] = 2
    /\ run.answers.send_fails = max_retries
    /\ Count(run.ops, "send") = max_retries + 1
    /\ breakers[run.consumer]["send"] = [CircuitBreaker EXCEPT !.last_failure_time = now]

====
